---- MODULE Spec2Model ----
(***************************************************************************)
(* Badminton queue system: the matchmaking queue, the matches formed from  *)
(* it and the ELO-style ranking update, as served by the HTTP handlers of  *)
(* the server.                                                             *)
(*                                                                         *)
(* Representation:                                                         *)
(*  - uuids are the positions at which the objects were created: a player  *)
(*    id is its index in players, a match id its index in matches; 0 is an *)
(*    id that no object has.                                               *)
(*  - time is counted in units of 6 seconds (10 units per minute), so that *)
(*    a weight (two decimals) moves by 0.01 every 3 units.                 *)
(*  - a weight is kept in hundredths (1.0 is 100).                         *)
(*  - a name is a sequence of characters, a character a number, 0 being a  *)
(*    blank.  Names are only compared, so the first unregistered name is   *)
(*    the only unregistered name that join is tried with.                  *)
(*  - null is NoTime for a timestamp and the empty sequence for a result.  *)
(*  - a handler is an operator from the state it is called in to what it   *)
(*    answers, emits and leaves behind; a step of the server puts what it  *)
(*    leaves behind in place of the state.                                 *)
(*  - requests holds the requests that were issued together and the        *)
(*    position each one's handler has reached, statement by statement; it  *)
(*    is empty where handlers are taken as single steps.                   *)
(*  - objectInQueue is the property isInQueue of the built-in Object, which *)
(*    players, a plain object, hands out under the key 'constructor'.       *)
(***************************************************************************)
EXTENDS Integers, Sequences, FiniteSets, TLC

VARIABLES players, matches, activeMatches, completedMatches, badmintonQueue,
          now, ticks, served, requests, objectInQueue

vars == <<players, matches, activeMatches, completedMatches, badmintonQueue,
          now, ticks, served, requests, objectInQueue>>

\* everything the server keeps between two requests
serverState == <<players, matches, activeMatches, completedMatches, badmintonQueue>>

(***************************************************************************)
(* Bounds                                                                  *)
(***************************************************************************)
MaxPlayers == 5
MaxTicks == 2
MaxServed == 8
ShortWait == 3
LongWait == 372
MaxLaterTicks == 1
MaxLaterServed == 4
RankingSpread == 2
RankingStep == 50
MaxWaits == 3
MaxRequests == 3
MaxTurnRequests == 5
ConcurrentQueueMax == 7


(***************************************************************************)
(* Program constants                                                       *)
(***************************************************************************)
NoTime == -1
InitialRanking == 1200
BaseWeight == 100
MaxTimeBonus == 200
LowRankingLimit == 1000
LowRankingBonus == 30
KFactor == 32
MatchSize == 4
WinnerCount == 2
Blank == 0
UnitsPerHundredth == 3

Min(a, b) == IF a <= b THEN a ELSE b
Abs(a) == IF a < 0 THEN 0 - a ELSE a

\* the value of a request field the client did not send
Missing == <<-1>>
MissingId == -1
\* the key 'constructor', which every plain object answers with Object
ConstructorId == -2
NoId == 0

(***************************************************************************)
(* Player                                                                  *)
(***************************************************************************)
Player(name) ==
    [name |-> name, ranking |-> InitialRanking, wins |-> 0, losses |-> 0,
     totalMatches |-> 0, queueWeight |-> BaseWeight, lastMatchTime |-> NoTime,
     isInQueue |-> FALSE, isInMatch |-> FALSE]

\* EloSteps[k] is the least d2 = 2 * (opponentRanking - ranking) for which
\* Math.round(K * (1 - expectedScore)) >= k, where
\* expectedScore = 1 / (1 + 10 ^ ((opponentRanking - ranking) / 400)).
\* opponentRanking is a sum of two rankings halved, so d2 is an integer.
EloSteps ==
    <<-1439, -1046, -857, -728, -628, -546, -474, -411, -353, -299, -248,
      -200, -154, -109, -65, -21, 22, 66, 110, 155, 201, 249, 300, 354, 412,
      475, 547, 629, 729, 858, 1047, 1440>>

\* Math.round(K * (1 - expectedScore)): what a win is worth
WinGain(d2) == Cardinality({k \in 1..KFactor : EloSteps[k] <= d2})

\* updateRanking counting the match only when it is won
UpdateRankingWinsOnly(p, won, opponentSum) ==
    LET gain == WinGain(opponentSum - 2 * p.ranking)
    IN [p EXCEPT !.ranking = IF won THEN p.ranking + gain
                                     ELSE p.ranking + gain - KFactor,
                 !.wins = IF won THEN p.wins + 1 ELSE p.wins,
                 !.losses = IF won THEN p.losses ELSE p.losses + 1,
                 !.totalMatches = IF won THEN p.totalMatches + 1 ELSE p.totalMatches]

\* updateRanking adding K * (1 - expectedScore) whether won or lost
UpdateRankingLoserGains(p, won, opponentSum) ==
    LET gain == WinGain(opponentSum - 2 * p.ranking)
    IN [p EXCEPT !.ranking = p.ranking + gain,
                 !.wins = IF won THEN p.wins + 1 ELSE p.wins,
                 !.losses = IF won THEN p.losses ELSE p.losses + 1,
                 !.totalMatches = p.totalMatches + 1]

\* updateRanking scoring a lost match as a draw (actualScore 0.5)
UpdateRankingLossAsDraw(p, won, opponentSum) ==
    LET gain == WinGain(opponentSum - 2 * p.ranking)
    IN [p EXCEPT !.ranking = IF won THEN p.ranking + gain
                                     ELSE p.ranking + gain - KFactor \div 2,
                 !.wins = IF won THEN p.wins + 1 ELSE p.wins,
                 !.losses = IF won THEN p.losses ELSE p.losses + 1,
                 !.totalMatches = p.totalMatches + 1]

\* updateRanking counting a lost match as played but not as lost
UpdateRankingLossUncounted(p, won, opponentSum) ==
    LET gain == WinGain(opponentSum - 2 * p.ranking)
    IN [p EXCEPT !.ranking = IF won THEN p.ranking + gain
                                     ELSE p.ranking + gain - KFactor,
                 !.wins = IF won THEN p.wins + 1 ELSE p.wins,
                 !.totalMatches = p.totalMatches + 1]

\* updateRanking counting a won match as won and as lost
UpdateRankingWinAlsoLoss(p, won, opponentSum) ==
    LET gain == WinGain(opponentSum - 2 * p.ranking)
    IN [p EXCEPT !.ranking = IF won THEN p.ranking + gain
                                     ELSE p.ranking + gain - KFactor,
                 !.wins = IF won THEN p.wins + 1 ELSE p.wins,
                 !.losses = p.losses + 1,
                 !.totalMatches = p.totalMatches + 1]

\* updateRanking(won, opponentRanking), opponentRanking = opponentSum / 2
UpdateRanking(p, won, opponentSum) ==
    LET gain == WinGain(opponentSum - 2 * p.ranking)
    IN [p EXCEPT !.ranking = IF won THEN p.ranking + gain
                                     ELSE p.ranking + gain - KFactor,
                 !.wins = IF won THEN p.wins + 1 ELSE p.wins,
                 !.losses = IF won THEN p.losses ELSE p.losses + 1,
                 !.totalMatches = p.totalMatches + 1]

\* Math.round(x / 3) for x >= 0
RoundHundredths(units) == (2 * units + UnitsPerHundredth) \div (2 * UnitsPerHundredth)

\* calculateQueueWeight giving the ranking bonus at the limit too
CalculateQueueWeightBonusAtLimit(p, t) ==
    LET timeBonus == IF p.lastMatchTime # NoTime
                     THEN Min(RoundHundredths(t - p.lastMatchTime), MaxTimeBonus)
                     ELSE 0
        rankBonus == IF p.ranking <= LowRankingLimit THEN LowRankingBonus ELSE 0
    IN BaseWeight + timeBonus + rankBonus

\* calculateQueueWeight() at time t, in hundredths
CalculateQueueWeight(p, t) ==
    LET timeBonus == IF p.lastMatchTime # NoTime
                     THEN Min(RoundHundredths(t - p.lastMatchTime), MaxTimeBonus)
                     ELSE 0
        rankBonus == IF p.ranking < LowRankingLimit THEN LowRankingBonus ELSE 0
    IN BaseWeight + timeBonus + rankBonus

(***************************************************************************)
(* BadmintonQueue                                                          *)
(***************************************************************************)
\* The weights w (in hundredths, 100..330) for which the doubles w/100 and
\* (w+1)/100 differ by less than the double 0.01: 1.13 - 1.12 evaluates to
\* 0.009999999999999787, while 1.01 - 1.0 is 0.010000000000000009.
FloatTieLow ==
    {112, 137, 162, 187, 200, 202, 204, 206, 208, 210, 212, 214, 216, 218,
     220, 222, 224, 225, 227, 229, 231, 233, 235, 237, 239, 241, 243, 245,
     247, 249, 250, 252, 254, 256, 258, 260, 262, 264, 266, 268, 270, 272,
     274, 275, 277, 279, 281, 283, 285, 287, 289, 291, 293, 295, 297, 299,
     300, 302, 304, 306, 308, 310, 312, 314, 316, 318, 320, 322, 324, 325,
     327, 329}

\* Math.abs(a.weight - b.weight) < 0.01, on the doubles
WeightsTie(w1, w2) ==
    \/ w1 = w2
    \/ Abs(w1 - w2) = 1 /\ Min(w1, w2) \in FloatTieLow

\* the comparison function handed to sort: negative when a goes first
Comparefn(a, b) ==
    IF WeightsTie(a.weight, b.weight)
    THEN a.joinTime - b.joinTime
    ELSE b.weight - a.weight

\* what Comparefn reads of the entries of q
SortKeys(q) ==
    {[weight |-> q[i].weight, joinTime |-> q[i].joinTime] : i \in 1..Len(q)}

\* whether Comparefn is a consistent comparator for the values in q (the
\* condition under which Array.prototype.sort defines the resulting order)
ConsistentComparator(q) ==
    LET S == SortKeys(q)
    IN \A a, b \in S :
          LET ab == Comparefn(a, b)
              ba == Comparefn(b, a)
          IN /\ a = b => ab = 0
             /\ ab = 0 => ba = 0
             /\ ab < 0 => ba > 0
             /\ \A c \in S :
                   LET bc == Comparefn(b, c)
                       ac == Comparefn(a, c)
                   IN /\ (ab = 0 /\ bc = 0) => ac = 0
                      /\ (ab < 0 /\ bc < 0) => ac < 0
                      /\ (ab > 0 /\ bc > 0) => ac > 0

\* e put behind the entries of the sorted s that do not come after it
StableInsert(s, e) ==
    LET k == Cardinality({i \in 1..Len(s) : Comparefn(s[i], e) <= 0})
    IN SubSeq(s, 1, k) \o <<e>> \o SubSeq(s, k + 1, Len(s))

RECURSIVE StableSort(_)
\* the stable sort of q by a consistent Comparefn
StableSort(q) ==
    IF q = <<>> THEN <<>>
    ELSE StableInsert(StableSort(SubSeq(q, 1, Len(q) - 1)), q[Len(q)])

\* the orders the entries of q can be put in
Reorderings(q) ==
    LET I == 1..Len(q)
    IN {[i \in I |-> q[f[i]]] : f \in Permutations(I)}

\* badmintonQueue.sort(comparefn): the stable sorted order when the
\* comparator is consistent, an implementation-defined order otherwise
SortOutcomes(q) ==
    IF ConsistentComparator(q) THEN {StableSort(q)} ELSE Reorderings(q)

\* badmintonQueue.findIndex(q => q.player.id === playerId), 1-based; 0 for -1
FindIndex(q, playerId) ==
    IF \E i \in 1..Len(q) : q[i].player = playerId
    THEN CHOOSE i \in 1..Len(q) :
            /\ q[i].player = playerId
            /\ \A j \in 1..(i - 1) : q[j].player # playerId
    ELSE 0

\* addPlayer looking at isInQueue only
AlreadyActiveQueueOnly(p) == p.isInQueue

\* addPlayer looking at isInMatch only
AlreadyActiveMatchOnly(p) == p.isInMatch

\* whether addPlayer refuses the player
AlreadyActive(p) == p.isInQueue \/ p.isInMatch

\* addPlayer returning the position of the entry as pushed, before the sort
AddPlayerPositionAsPushed(ps, q, id, t) ==
    IF AlreadyActive(ps[id])
    THEN {[success |-> FALSE, message |-> "Player already in queue or match",
           queuePosition |-> 0, players |-> ps, queue |-> q]}
    ELSE LET w == CalculateQueueWeight(ps[id], t)
             ps2 == [ps EXCEPT ![id].isInQueue = TRUE, ![id].queueWeight = w]
             pushed == Append(q, [player |-> id, joinTime |-> t, weight |-> w])
         IN {[success |-> TRUE, message |-> "",
              queuePosition |-> Len(pushed),
              players |-> ps2, queue |-> sorted] : sorted \in SortOutcomes(pushed)}


\* addPlayer weighing every entry of the queue anew at each admission
AddPlayerReweighsQueue(ps, q, id, t) ==
    IF AlreadyActive(ps[id])
    THEN {[success |-> FALSE, message |-> "Player already in queue or match",
           queuePosition |-> 0, players |-> ps, queue |-> q]}
    ELSE LET w == CalculateQueueWeight(ps[id], t)
             ps2 == [ps EXCEPT ![id].isInQueue = TRUE, ![id].queueWeight = w]
             live == [i \in 1..Len(q) |->
                         [q[i] EXCEPT !.weight = CalculateQueueWeight(ps[q[i].player], t)]]
             pushed == Append(live, [player |-> id, joinTime |-> t, weight |-> w])
         IN {[success |-> TRUE, message |-> "",
              queuePosition |-> FindIndex(sorted, id),
              players |-> ps2, queue |-> sorted] : sorted \in SortOutcomes(pushed)}

\* addPlayer(player) at time t: the results it can have, each with the
\* collections it leaves behind
AddPlayer(ps, q, id, t) ==
    IF AlreadyActive(ps[id])
    THEN {[success |-> FALSE, message |-> "Player already in queue or match",
           queuePosition |-> 0, players |-> ps, queue |-> q]}
    ELSE LET w == CalculateQueueWeight(ps[id], t)
             ps2 == [ps EXCEPT ![id].isInQueue = TRUE, ![id].queueWeight = w]
             pushed == Append(q, [player |-> id, joinTime |-> t, weight |-> w])
         IN {[success |-> TRUE, message |-> "",
              queuePosition |-> FindIndex(sorted, id),
              players |-> ps2, queue |-> sorted] : sorted \in SortOutcomes(pushed)}

\* splice taking the entry behind the i-th
RemoveAtNext(q, i) == SubSeq(q, 1, i) \o SubSeq(q, i + 2, Len(q))

\* q without its i-th entry: splice(i, 1)
RemoveAt(q, i) == SubSeq(q, 1, i - 1) \o SubSeq(q, i + 1, Len(q))

\* removePlayer without the reset of isInQueue
RemovePlayerKeepsFlag(ps, q, playerId) ==
    LET index == FindIndex(q, playerId)
    IN IF index = 0
       THEN [success |-> FALSE, message |-> "Player not in queue", player |-> NoId,
             players |-> ps, queue |-> q]
       ELSE [success |-> TRUE, message |-> "", player |-> q[index].player,
             players |-> ps, queue |-> RemoveAt(q, index)]

\* removePlayer without the check of the index: splice(-1, 1) takes the last
\* entry
RemovePlayerUncheckedIndex(ps, q, playerId) ==
    LET found == FindIndex(q, playerId)
        index == IF found = 0 THEN Len(q) ELSE found
    IN IF index = 0
       THEN [success |-> FALSE, message |-> "Player not in queue", player |-> NoId,
             players |-> ps, queue |-> q]
       ELSE [success |-> TRUE, message |-> "", player |-> q[index].player,
             players |-> [ps EXCEPT ![q[index].player].isInQueue = FALSE],
             queue |-> RemoveAt(q, index)]

\* removePlayer(playerId)
RemovePlayer(ps, q, playerId) ==
    LET index == FindIndex(q, playerId)
    IN IF index = 0
       THEN [success |-> FALSE, message |-> "Player not in queue", player |-> NoId,
             players |-> ps, queue |-> q]
       ELSE [success |-> TRUE, message |-> "", player |-> q[index].player,
             players |-> [ps EXCEPT ![q[index].player].isInQueue = FALSE],
             queue |-> RemoveAt(q, index)]

\* createMatch taking the last four entries: splice(-4)
MatchPlayersFromBack(q) == [i \in 1..MatchSize |-> q[Len(q) - MatchSize + i].player]

\* the players createMatch takes: splice(0, 4)
MatchPlayers(q) == [i \in 1..MatchSize |-> q[i].player]

\* what createMatch leaves in the queue
QueueAfterMatch(q) == SubSeq(q, MatchSize + 1, Len(q))

\* new BadmintonMatch(players) at time t
BadmintonMatch(roster, t) ==
    [players |-> roster, startTime |-> t, endTime |-> NoTime, result |-> <<>>,
     status |-> "active"]

\* whether createMatch refuses
InsufficientPlayers(q) == Len(q) < MatchSize

\* getQueueStatus numbering the positions from 0, as map's index does
GetQueueStatusFromZero(ps, q) ==
    [queue |-> [i \in 1..Len(q) |->
                   [position |-> i - 1,
                    player |-> [id |-> q[i].player, name |-> ps[q[i].player].name,
                                ranking |-> ps[q[i].player].ranking,
                                weight |-> q[i].weight],
                    joinTime |-> q[i].joinTime]],
     length |-> Len(q),
     canCreateMatch |-> Len(q) >= MatchSize]

\* getQueueStatus()
GetQueueStatus(ps, q) ==
    [queue |-> [i \in 1..Len(q) |->
                   [position |-> i,
                    player |-> [id |-> q[i].player, name |-> ps[q[i].player].name,
                                ranking |-> ps[q[i].player].ranking,
                                weight |-> q[i].weight],
                    joinTime |-> q[i].joinTime]],
     length |-> Len(q),
     canCreateMatch |-> Len(q) >= MatchSize]

(***************************************************************************)
(* Requests, responses and notifications                                   *)
(***************************************************************************)
\* res.status(status).json({success, message, ...}); data holds the rest of
\* the body
Response(status, success, message, data) ==
    [status |-> status, success |-> success, message |-> message, data |-> data]

PlayerView(ps, id) == [id |-> id, name |-> ps[id].name, ranking |-> ps[id].ranking]

\* activeMatches.map(match => ({id, players, startTime, status}))
ActiveMatchesView(ps, ms, active) ==
    [i \in 1..Len(active) |->
        [id |-> active[i],
         players |-> [k \in 1..Len(ms[active[i]].players) |->
                         PlayerView(ps, ms[active[i]].players[k])],
         startTime |-> ms[active[i]].startTime,
         status |-> ms[active[i]].status]]

\* io.emit('badmintonUpdate', {queue, activeMatches})
BadmintonUpdate(ps, ms, active, q) ==
    [type |-> "badmintonUpdate", queue |-> GetQueueStatus(ps, q),
     activeMatches |-> ActiveMatchesView(ps, ms, active)]

\* io.emit('matchCreated', {match})
MatchCreated(ps, ms, id) ==
    [type |-> "matchCreated",
     match |-> [id |-> id,
                players |-> [k \in 1..Len(ms[id].players) |-> PlayerView(ps, ms[id].players[k])],
                startTime |-> ms[id].startTime, status |-> ms[id].status]]

\* io.emit('matchCompleted', {match})
MatchCompleted(ps, ms, id) ==
    [type |-> "matchCompleted",
     match |-> [id |-> id,
                players |-> [k \in 1..Len(ms[id].players) |-> PlayerView(ps, ms[id].players[k])],
                result |-> [winners |-> [k \in 1..Len(ms[id].result[1].winners) |->
                                            PlayerView(ps, ms[id].result[1].winners[k])],
                            losers |-> [k \in 1..Len(ms[id].result[1].losers) |->
                                            PlayerView(ps, ms[id].result[1].losers[k])]],
                endTime |-> ms[id].endTime]]

(***************************************************************************)
(* Names                                                                   *)
(***************************************************************************)
RECURSIVE TrimStart(_)
TrimStart(s) ==
    IF s # <<>> /\ Head(s) = Blank THEN TrimStart(Tail(s)) ELSE s

RECURSIVE TrimEnd(_)
TrimEnd(s) ==
    IF s # <<>> /\ s[Len(s)] = Blank THEN TrimEnd(SubSeq(s, 1, Len(s) - 1)) ELSE s

\* playerName.trim()
Trim(s) == TrimEnd(TrimStart(s))

\* !playerName || !playerName.trim()
NameRequired(raw) == raw = Missing \/ raw = <<>> \/ Trim(raw) = <<>>

\* Object.values(players).find(p => p.name === name): the id, 0 when none
FindByName(ps, name) ==
    IF \E i \in 1..Len(ps) : ps[i].name = name
    THEN CHOOSE i \in 1..Len(ps) :
            /\ ps[i].name = name
            /\ \A j \in 1..(i - 1) : ps[j].name # name
    ELSE NoId

\* the names join is tried with: those of the registered players and the
\* first unregistered one, the first name padded with blanks, and no name
KnownNames == {<<i>> : i \in 1..Min(Len(players) + 1, MaxPlayers)}
NameInputs ==
    {Missing, <<>>, <<Blank>>}
      \cup KnownNames
      \cup {<<Blank, 1, Blank>>}

\* the player ids a request is tried with: an id that no player has, those
\* of the registered players and the first unregistered one
PlayerIdInputs == NoId..Min(Len(players) + 1, MaxPlayers)

PlayerIds == 1..Len(players)
MatchIds == 1..Len(matches)

\* the matches whose status is active
ActiveIds == {m \in MatchIds : matches[m].status = "active"}

\* the match ids a completion is tried with: none, one that no match has,
\* and those of the matches
MatchIdInputs == {MissingId, NoId} \cup MatchIds

\* lists of two ids in nondecreasing order (includes() ignores the order)
WinnerPairs == {w \in PlayerIdInputs \X PlayerIdInputs : w[1] <= w[2]}

\* lists of ids that are not two ids, and no list at all
WrongCounts == {Missing, <<>>, <<1>>, <<1, 2, 3>>}

\* the completions that are tried: every match id with every wrong count,
\* every active match with every pair, and every other id with one pair
CompletionInputs ==
    (MatchIdInputs \X WrongCounts)
      \cup (ActiveIds \X WinnerPairs)
      \cup ((MatchIdInputs \ ActiveIds) \X {<<1, 2>>})

(***************************************************************************)
(* BadmintonMatch.completeMatch and the checks of the completion handler   *)
(***************************************************************************)
Range(s) == {s[i] : i \in 1..Len(s)}

\* the winners taken as the players that winnerIds names in the order of the
\* roster: the first id before the second
WinnersInRosterOrder(roster, winnerIds) ==
    LET chosen(id) == id \in Range(winnerIds) /\ winnerIds[1] <= winnerIds[2]
    IN SelectSeq(roster, chosen)

\* match.players.filter(p => winnerIds.includes(p.id))
Winners(roster, winnerIds) ==
    LET chosen(id) == id \in Range(winnerIds) IN SelectSeq(roster, chosen)

\* match.players.filter(p => !winnerIds.includes(p.id))
Losers(roster, winnerIds) ==
    LET left(id) == id \notin Range(winnerIds) IN SelectSeq(roster, left)

RECURSIVE RankingSum(_, _)
\* side.reduce((sum, p) => sum + p.ranking, 0)
RankingSum(ps, side) ==
    IF side = <<>> THEN 0 ELSE ps[Head(side)].ranking + RankingSum(ps, Tail(side))

\* !matchId || !winnerIds || winnerIds.length !== 2
BadCompletionRequest(matchId, winnerIds) ==
    matchId = MissingId \/ winnerIds = Missing \/ Len(winnerIds) # WinnerCount

\* the lookup of the match without the look at its status
NoActiveMatchUnknownOnly(ms, matchId) == matchId \notin 1..Len(ms)

\* !match || match.status !== 'active'
NoActiveMatch(ms, matchId) ==
    matchId \notin 1..Len(ms) \/ ms[matchId].status # "active"

\* the check of the selection refusing only too many winners
InvalidSelectionTooMany(winners, losers) == Len(winners) > WinnerCount

\* winners.length !== 2 || losers.length !== 2
InvalidSelection(winners, losers) ==
    Len(winners) # WinnerCount \/ Len(losers) # WinnerCount

\* completeMatch updating each side against its own average
CompletedPlayerOwnAverage(ps, id, winners, losers, t) ==
    IF id \in Range(winners)
    THEN [UpdateRanking(ps[id], TRUE, RankingSum(ps, winners))
             EXCEPT !.lastMatchTime = t, !.isInMatch = FALSE]
    ELSE IF id \in Range(losers)
    THEN [UpdateRanking(ps[id], FALSE, RankingSum(ps, losers))
             EXCEPT !.lastMatchTime = t, !.isInMatch = FALSE]
    ELSE ps[id]

\* completeMatch without the reset of the losers' isInMatch
CompletedPlayerLosersStay(ps, id, winners, losers, t) ==
    IF id \in Range(winners)
    THEN [UpdateRanking(ps[id], TRUE, RankingSum(ps, losers))
             EXCEPT !.lastMatchTime = t, !.isInMatch = FALSE]
    ELSE IF id \in Range(losers)
    THEN [UpdateRanking(ps[id], FALSE, RankingSum(ps, winners))
             EXCEPT !.lastMatchTime = t]
    ELSE ps[id]

\* completeMatch stamping the time on every registered player
CompletedPlayerStampsAll(ps, id, winners, losers, t) ==
    IF id \in Range(winners)
    THEN [UpdateRanking(ps[id], TRUE, RankingSum(ps, losers))
             EXCEPT !.lastMatchTime = t, !.isInMatch = FALSE]
    ELSE IF id \in Range(losers)
    THEN [UpdateRanking(ps[id], FALSE, RankingSum(ps, winners))
             EXCEPT !.lastMatchTime = t, !.isInMatch = FALSE]
    ELSE [ps[id] EXCEPT !.lastMatchTime = t]

\* the player as completeMatch leaves it at time t; both averages are those
\* of the rankings before the call
CompletedPlayer(ps, id, winners, losers, t) ==
    IF id \in Range(winners)
    THEN [UpdateRanking(ps[id], TRUE, RankingSum(ps, losers))
             EXCEPT !.lastMatchTime = t, !.isInMatch = FALSE]
    ELSE IF id \in Range(losers)
    THEN [UpdateRanking(ps[id], FALSE, RankingSum(ps, winners))
             EXCEPT !.lastMatchTime = t, !.isInMatch = FALSE]
    ELSE ps[id]

\* the two forEach loops taking each average from the rankings as they are
\* when the player is updated
RECURSIVE UpdatedInOrderLiveAverages(_, _, _, _, _, _)
UpdatedInOrderLiveAverages(ps, order, winners, losers, before, t) ==
    IF order = <<>>
    THEN ps
    ELSE LET id == Head(order)
             won == id \in Range(winners)
             opponentSum == RankingSum(ps, IF won THEN losers ELSE winners)
             updated == [UpdateRanking(ps[id], won, opponentSum)
                            EXCEPT !.lastMatchTime = t, !.isInMatch = FALSE]
         IN UpdatedInOrderLiveAverages([ps EXCEPT ![id] = updated], Tail(order),
                                       winners, losers, before, t)

\* the two forEach loops of completeMatch, run over the players of the match
\* in the given order: each player is updated in place against the average
\* of the other side, both averages being computed from the rankings
\* `before` the loops
RECURSIVE UpdatedInOrder(_, _, _, _, _, _)
UpdatedInOrder(ps, order, winners, losers, before, t) ==
    IF order = <<>>
    THEN ps
    ELSE LET id == Head(order)
             won == id \in Range(winners)
             opponentSum == RankingSum(before, IF won THEN losers ELSE winners)
             updated == [UpdateRanking(ps[id], won, opponentSum)
                            EXCEPT !.lastMatchTime = t, !.isInMatch = FALSE]
         IN UpdatedInOrder([ps EXCEPT ![id] = updated], Tail(order),
                           winners, losers, before, t)

\* completeMatch without the change of the status
CompletedMatchKeepsStatus(m, winners, losers, t) ==
    [m EXCEPT !.endTime = t,
              !.result = <<[winners |-> winners, losers |-> losers]>>]

\* completeMatch rebuilding the roster from the two sides
CompletedMatchRosterBySides(m, winners, losers, t) ==
    [m EXCEPT !.players = winners \o losers,
              !.endTime = t,
              !.result = <<[winners |-> winners, losers |-> losers]>>,
              !.status = "completed"]

\* completeMatch recording the winners as both sides of the result
CompletedMatchWinnersTwice(m, winners, losers, t) ==
    [m EXCEPT !.endTime = t,
              !.result = <<[winners |-> winners, losers |-> winners]>>,
              !.status = "completed"]

\* the match as completeMatch leaves it
CompletedMatch(m, winners, losers, t) ==
    [m EXCEPT !.endTime = t,
              !.result = <<[winners |-> winners, losers |-> losers]>>,
              !.status = "completed"]

\* the lookup in activeMatches that never finds the match
ActiveIndexNotFound(active, matchId) == 0

\* activeMatches.findIndex(m => m.id === matchId), 1-based; 0 for -1
ActiveIndex(active, matchId) ==
    IF \E i \in 1..Len(active) : active[i] = matchId
    THEN CHOOSE i \in 1..Len(active) :
            /\ active[i] = matchId
            /\ \A j \in 1..(i - 1) : active[j] # matchId
    ELSE 0

(***************************************************************************)
(* The handlers: what each one answers, emits and leaves behind, from the  *)
(* state it is called in                                                   *)
(***************************************************************************)
Outcome(resp, events, ps, ms, active, completed, q) ==
    [response |-> resp, emitted |-> events, players |-> ps, matches |-> ms,
     activeMatches |-> active, completedMatches |-> completed, badmintonQueue |-> q]

\* a handler that answers and touches nothing
Refused(resp) ==
    Outcome(resp, <<>>, players, matches, activeMatches, completedMatches, badmintonQueue)

\* GET /api/badminton/status
StatusHandler ==
    Refused(Response(200, TRUE, "",
          <<[queue |-> GetQueueStatus(players, badmintonQueue),
             activeMatches |-> ActiveMatchesView(players, matches, activeMatches),
             players |-> [i \in 1..Len(players) |->
                             [id |-> i, name |-> players[i].name,
                              ranking |-> players[i].ranking,
                              wins |-> players[i].wins, losses |-> players[i].losses,
                              totalMatches |-> players[i].totalMatches,
                              isInQueue |-> players[i].isInQueue,
                              isInMatch |-> players[i].isInMatch]]]>>))

\* join creating a player without looking the name up
JoinHandlerAlwaysCreates(raw) ==
    IF NameRequired(raw)
    THEN {Refused(Response(400, FALSE, "Player name is required", <<>>))}
    ELSE LET id == Len(players) + 1
             registry == Append(players, Player(Trim(raw)))
         IN {Outcome(Response(200, result.success, result.message,
                              <<[queuePosition |-> result.queuePosition,
                                 player |-> PlayerView(result.players, id)]>>),
                     IF result.success
                     THEN <<BadmintonUpdate(result.players, matches, activeMatches,
                                            result.queue)>>
                     ELSE <<>>,
                     result.players, matches, activeMatches, completedMatches,
                     result.queue) :
                result \in AddPlayer(registry, badmintonQueue, id, now)}

\* POST /api/badminton/join: the outcomes it can have
JoinHandler(raw) ==
    IF NameRequired(raw)
    THEN {Refused(Response(400, FALSE, "Player name is required", <<>>))}
    ELSE LET found == FindByName(players, Trim(raw))
             id == IF found = NoId THEN Len(players) + 1 ELSE found
             registry == IF found = NoId
                         THEN Append(players, Player(Trim(raw)))
                         ELSE players
         IN {Outcome(Response(200, result.success, result.message,
                              <<[queuePosition |-> result.queuePosition,
                                 player |-> PlayerView(result.players, id)]>>),
                     IF result.success
                     THEN <<BadmintonUpdate(result.players, matches, activeMatches,
                                            result.queue)>>
                     ELSE <<>>,
                     result.players, matches, activeMatches, completedMatches,
                     result.queue) :
                result \in AddPlayer(registry, badmintonQueue, id, now)}

\* leave emitting the update whether the player was removed or not
LeaveHandlerAlwaysEmits(playerId) ==
    LET result == RemovePlayer(players, badmintonQueue, playerId)
    IN Outcome(Response(200, result.success, result.message,
                        <<[player |-> result.player]>>),
               <<BadmintonUpdate(result.players, matches, activeMatches,
                                 result.queue)>>,
               result.players, matches, activeMatches, completedMatches, result.queue)

\* DELETE /api/badminton/leave/:playerId
LeaveHandler(playerId) ==
    LET result == RemovePlayer(players, badmintonQueue, playerId)
    IN Outcome(Response(200, result.success, result.message,
                        <<[player |-> result.player]>>),
               IF result.success
               THEN <<BadmintonUpdate(result.players, matches, activeMatches,
                                      result.queue)>>
               ELSE <<>>,
               result.players, matches, activeMatches, completedMatches, result.queue)

\* createMatch without the reset of isInQueue
PlayersInMatchStillQueued(ps, roster) ==
    [i \in 1..Len(ps) |->
        IF i \in Range(roster) THEN [ps[i] EXCEPT !.isInMatch = TRUE] ELSE ps[i]]

\* the players as createMatch leaves them: those taken are in a match
PlayersInMatch(ps, roster) ==
    [i \in 1..Len(ps) |->
        IF i \in Range(roster)
        THEN [ps[i] EXCEPT !.isInQueue = FALSE, !.isInMatch = TRUE]
        ELSE ps[i]]

\* create-match splicing the queue before it looks at its length
CreateMatchHandlerSpliceFirst ==
    IF InsufficientPlayers(badmintonQueue)
    THEN Outcome(Response(200, FALSE, "Need at least 4 players to create a match", <<>>),
                 <<>>, players, matches, activeMatches, completedMatches, <<>>)
    ELSE LET roster == MatchPlayers(badmintonQueue)
             id == Len(matches) + 1
             ps == PlayersInMatch(players, roster)
             q == QueueAfterMatch(badmintonQueue)
             ms == Append(matches, BadmintonMatch(roster, now))
             active == Append(activeMatches, id)
         IN Outcome(Response(200, TRUE, "", <<[match |-> id]>>),
                    <<MatchCreated(ps, ms, id), BadmintonUpdate(ps, ms, active, q)>>,
                    ps, ms, active, completedMatches, q)

\* POST /api/badminton/create-match
CreateMatchHandler ==
    IF InsufficientPlayers(badmintonQueue)
    THEN Refused(Response(200, FALSE, "Need at least 4 players to create a match", <<>>))
    ELSE LET roster == MatchPlayers(badmintonQueue)
             id == Len(matches) + 1
             ps == PlayersInMatch(players, roster)
             q == QueueAfterMatch(badmintonQueue)
             ms == Append(matches, BadmintonMatch(roster, now))
             active == Append(activeMatches, id)
         IN Outcome(Response(200, TRUE, "", <<[match |-> id]>>),
                    <<MatchCreated(ps, ms, id), BadmintonUpdate(ps, ms, active, q)>>,
                    ps, ms, active, completedMatches, q)

\* complete-match emitting the update before it takes the match from the
\* active ones
CompleteMatchHandlerEarlyUpdate(matchId, winnerIds) ==
    IF BadCompletionRequest(matchId, winnerIds)
    THEN Refused(Response(400, FALSE, "Match ID and 2 winner IDs required", <<>>))
    ELSE IF NoActiveMatch(matches, matchId)
    THEN Refused(Response(404, FALSE, "Active match not found", <<>>))
    ELSE LET winners == Winners(matches[matchId].players, winnerIds)
             losers == Losers(matches[matchId].players, winnerIds)
             activeIndex == ActiveIndex(activeMatches, matchId)
             ps == [i \in 1..Len(players) |->
                       CompletedPlayer(players, i, winners, losers, now)]
             ms == [matches EXCEPT ![matchId] =
                       CompletedMatch(matches[matchId], winners, losers, now)]
             active == IF activeIndex # 0
                       THEN RemoveAt(activeMatches, activeIndex)
                       ELSE activeMatches
             completed == IF activeIndex # 0
                          THEN Append(completedMatches, matchId)
                          ELSE completedMatches
         IN IF InvalidSelection(winners, losers)
            THEN Refused(Response(400, FALSE, "Invalid winner selection", <<>>))
            ELSE Outcome(Response(200, TRUE, "", <<[match |-> matchId]>>),
                         <<MatchCompleted(ps, ms, matchId),
                           BadmintonUpdate(ps, ms, activeMatches, badmintonQueue)>>,
                         ps, ms, active, completed, badmintonQueue)

\* complete-match looking the match up before it counts the winners
CompleteMatchHandlerLookupFirst(matchId, winnerIds) ==
    IF matchId = MissingId \/ NoActiveMatch(matches, matchId)
    THEN Refused(Response(404, FALSE, "Active match not found", <<>>))
    ELSE IF BadCompletionRequest(matchId, winnerIds)
    THEN Refused(Response(400, FALSE, "Match ID and 2 winner IDs required", <<>>))
    ELSE LET winners == Winners(matches[matchId].players, winnerIds)
             losers == Losers(matches[matchId].players, winnerIds)
             activeIndex == ActiveIndex(activeMatches, matchId)
             ps == [i \in 1..Len(players) |->
                       CompletedPlayer(players, i, winners, losers, now)]
             ms == [matches EXCEPT ![matchId] =
                       CompletedMatch(matches[matchId], winners, losers, now)]
             active == IF activeIndex # 0
                       THEN RemoveAt(activeMatches, activeIndex)
                       ELSE activeMatches
             completed == IF activeIndex # 0
                          THEN Append(completedMatches, matchId)
                          ELSE completedMatches
         IN IF InvalidSelection(winners, losers)
            THEN Refused(Response(400, FALSE, "Invalid winner selection", <<>>))
            ELSE Outcome(Response(200, TRUE, "", <<[match |-> matchId]>>),
                         <<MatchCompleted(ps, ms, matchId),
                           BadmintonUpdate(ps, ms, active, badmintonQueue)>>,
                         ps, ms, active, completed, badmintonQueue)

\* POST /api/badminton/complete-match
CompleteMatchHandler(matchId, winnerIds) ==
    IF BadCompletionRequest(matchId, winnerIds)
    THEN Refused(Response(400, FALSE, "Match ID and 2 winner IDs required", <<>>))
    ELSE IF NoActiveMatch(matches, matchId)
    THEN Refused(Response(404, FALSE, "Active match not found", <<>>))
    ELSE LET winners == Winners(matches[matchId].players, winnerIds)
             losers == Losers(matches[matchId].players, winnerIds)
             activeIndex == ActiveIndex(activeMatches, matchId)
             ps == [i \in 1..Len(players) |->
                       CompletedPlayer(players, i, winners, losers, now)]
             ms == [matches EXCEPT ![matchId] =
                       CompletedMatch(matches[matchId], winners, losers, now)]
             active == IF activeIndex # 0
                       THEN RemoveAt(activeMatches, activeIndex)
                       ELSE activeMatches
             completed == IF activeIndex # 0
                          THEN Append(completedMatches, matchId)
                          ELSE completedMatches
         IN IF InvalidSelection(winners, losers)
            THEN Refused(Response(400, FALSE, "Invalid winner selection", <<>>))
            ELSE Outcome(Response(200, TRUE, "", <<[match |-> matchId]>>),
                         <<MatchCompleted(ps, ms, matchId),
                           BadmintonUpdate(ps, ms, active, badmintonQueue)>>,
                         ps, ms, active, completed, badmintonQueue)

\* POST /api/badminton/rejoin/:playerId: the outcomes it can have
RejoinHandler(playerId) ==
    IF playerId = ConstructorId
    THEN \* players['constructor'] is Object: addPlayer sets Object.isInQueue and
         \* throws at Object.calculateQueueWeight(); once the property is set it
         \* refuses
         {Refused(IF objectInQueue
                  THEN Response(200, FALSE, "Player already in queue or match", <<>>)
                  ELSE Response(500, FALSE, "TypeError", <<>>))}
    ELSE IF playerId \notin 1..Len(players)
    THEN {Refused(Response(404, FALSE, "Player not found", <<>>))}
    ELSE IF players[playerId].isInMatch
    THEN {Refused(Response(400, FALSE, "Player is currently in a match", <<>>))}
    ELSE {Outcome(Response(200, result.success, result.message,
                           <<[queuePosition |-> result.queuePosition]>>),
                  IF result.success
                  THEN <<BadmintonUpdate(result.players, matches, activeMatches,
                                         result.queue)>>
                  ELSE <<>>,
                  result.players, matches, activeMatches, completedMatches,
                  result.queue) :
             result \in AddPlayer(players, badmintonQueue, playerId, now)}

(***************************************************************************)
(* The server                                                              *)
(***************************************************************************)
Init ==
    /\ players = <<>>
    /\ matches = <<>>
    /\ activeMatches = <<>>
    /\ completedMatches = <<>>
    /\ badmintonQueue = <<>>
    /\ now = 0
    /\ ticks = 0
    /\ served = 0
    /\ requests = <<>> /\ objectInQueue = FALSE

\* whether the outcome o leaves the server's collections as they are
Changes(o) ==
    <<o.players, o.matches, o.activeMatches, o.completedMatches, o.badmintonQueue>>
        # serverState

\* the server handles a request with outcome o
Handle(o) ==
    /\ players' = o.players
    /\ matches' = o.matches
    /\ activeMatches' = o.activeMatches
    /\ completedMatches' = o.completedMatches
    /\ badmintonQueue' = o.badmintonQueue
    /\ served' = IF Changes(o) THEN served + 1 ELSE served
    /\ served' <= MaxServed
    /\ UNCHANGED <<now, ticks, requests, objectInQueue>>

\* the time that passes between two requests: a long wait the first time,
\* short ones afterwards
TickStep == IF ticks = 0 THEN LongWait ELSE ShortWait

\* time passes between two requests
Tick ==
    /\ ticks < MaxTicks
    /\ now' = now + TickStep
    /\ ticks' = ticks + 1
    /\ UNCHANGED <<serverState, served, requests, objectInQueue>>

Status == \E o \in {StatusHandler} : Handle(o)

Join(raw) == \E o \in JoinHandler(raw) : Handle(o)

Leave(playerId) == \E o \in {LeaveHandler(playerId)} : Handle(o)

CreateMatch == \E o \in {CreateMatchHandler} : Handle(o)

CompleteMatch(matchId, winnerIds) ==
    \E o \in {CompleteMatchHandler(matchId, winnerIds)} : Handle(o)

Rejoin(playerId) == \E o \in RejoinHandler(playerId) : Handle(o)

Next ==
    \/ Status
    \/ Tick
    \/ \E playerId \in PlayerIdInputs : Rejoin(playerId)
    \/ \E raw \in NameInputs : Join(raw)
    \/ \E playerId \in PlayerIdInputs : Leave(playerId)
    \/ CreateMatch
    \/ \E c \in CompletionInputs : CompleteMatch(c[1], c[2])

Spec == Init /\ [][Next]_vars

(***************************************************************************)
(* The server after a first match: four players joined at time 0, were put *)
(* in a match and the first two won it, all at time 0.  From there on      *)
(* time passes further than under Spec.                                    *)
(***************************************************************************)
FirstRoster == <<1, 2, 3, 4>>

(***************************************************************************)
(* completeMatch on rankings that are set as its tests set them            *)
(* (players[0].ranking = 1300, ...): four players of a first match that is *)
(* active, each with a ranking around the initial one.                     *)
(***************************************************************************)
Rankings ==
    {InitialRanking + RankingStep * k : k \in -RankingSpread..RankingSpread}

PlayersRanked(r) ==
    PlayersInMatch([i \in 1..MatchSize |->
                       [Player(<<i>>) EXCEPT !.isInQueue = TRUE, !.ranking = r[i]]],
                   FirstRoster)

InitRankings ==
    /\ \E r \in [1..MatchSize -> Rankings] : players = PlayersRanked(r)
    /\ matches = <<BadmintonMatch(FirstRoster, 0)>>
    /\ activeMatches = <<1>>
    /\ completedMatches = <<>>
    /\ badmintonQueue = <<>>
    /\ now = 0
    /\ ticks = 0
    /\ served = 0
    /\ requests = <<>> /\ objectInQueue = FALSE

NextRankings == \E c \in CompletionInputs : CompleteMatch(c[1], c[2])

SpecRankings == InitRankings /\ [][NextRankings]_vars

\* the players after the four joins, create-match and complete-match
PlayersAfterMatch ==
    LET joined == [i \in 1..MatchSize |-> [Player(<<i>>) EXCEPT !.isInQueue = TRUE]]
        seated == PlayersInMatch(joined, FirstRoster)
    IN [i \in 1..MatchSize |-> CompletedPlayer(seated, i, <<1, 2>>, <<3, 4>>, 0)]

MatchesAfterMatch ==
    <<CompletedMatch(BadmintonMatch(FirstRoster, 0), <<1, 2>>, <<3, 4>>, 0)>>

\* whether the server is in the state after the first match
AfterMatch ==
    /\ players = PlayersAfterMatch
    /\ matches = MatchesAfterMatch
    /\ activeMatches = <<>>
    /\ completedMatches = <<1>>
    /\ badmintonQueue = <<>>
    /\ now = 0
    /\ ticks = 0

\* the requests still to be served are MaxLaterServed
InitAfterMatch ==
    AfterMatch /\ served = MaxServed - MaxLaterServed /\ requests = <<>> /\ objectInQueue = FALSE

\* time passes a further time
TickLater ==
    /\ ticks >= MaxTicks
    /\ ticks < MaxTicks + MaxLaterTicks
    /\ now' = now + TickStep
    /\ ticks' = ticks + 1
    /\ UNCHANGED <<serverState, served, requests, objectInQueue>>

NextAfterMatch == Next \/ TickLater

SpecAfterMatch == InitAfterMatch /\ [][NextAfterMatch]_vars

(***************************************************************************)
(* The server with four players in the queue: they joined at time 0, in    *)
(* the order of their ids.  From there on MaxRequests requests change the  *)
(* state, and all requests are tried in every state.                       *)
(***************************************************************************)
FourQueued ==
    /\ players = [i \in 1..MatchSize |-> [Player(<<i>>) EXCEPT !.isInQueue = TRUE]]
    /\ matches = <<>>
    /\ activeMatches = <<>>
    /\ completedMatches = <<>>
    /\ badmintonQueue =
          [i \in 1..MatchSize |-> [player |-> i, joinTime |-> 0, weight |-> BaseWeight]]
    /\ now = 0
    /\ ticks = 0

InitRequests == FourQueued /\ served = MaxServed - MaxRequests /\ requests = <<>> /\ objectInQueue = FALSE

SpecRequests == InitRequests /\ [][Next]_vars

\* POST /api/badminton/rejoin/constructor: addPlayer(Object) sets
\* Object.isInQueue before it throws
RejoinInherited ==
    /\ \E o \in RejoinHandler(ConstructorId) :
          <<o.players, o.matches, o.activeMatches, o.completedMatches,
            o.badmintonQueue>> = serverState
    /\ objectInQueue' = TRUE
    /\ UNCHANGED <<serverState, now, ticks, served, requests>>

NextRejoin == Next \/ RejoinInherited

\* the server where rejoin is also tried with a key that players inherits
SpecRejoin == InitRequests /\ [][NextRejoin]_vars

\* four players in the queue and MaxServed requests to play match after
\* match: create-match, complete-match and rejoin
InitMatches ==
    FourQueued /\ served = 0 /\ requests = <<>> /\ objectInQueue = FALSE

NextMatches ==
    \/ \E playerId \in PlayerIdInputs : Rejoin(playerId)
    \/ CreateMatch
    \/ \E c \in CompletionInputs : CompleteMatch(c[1], c[2])

SpecMatches == InitMatches /\ [][NextMatches]_vars

\* the server after the first match, with a fifth player that is registered
\* and has not played; the requests still to be served are MaxTurnRequests
InitTurns ==
    /\ players = Append(PlayersAfterMatch, Player(<<MatchSize + 1>>))
    /\ matches = MatchesAfterMatch
    /\ activeMatches = <<>>
    /\ completedMatches = <<1>>
    /\ badmintonQueue = <<>>
    /\ now = 0
    /\ ticks = 0
    /\ served = MaxServed - MaxTurnRequests
    /\ requests = <<>>
    /\ objectInQueue = FALSE

\* the requests that move the queue, and time passing
NextTurns ==
    \/ Tick
    \/ TickLater
    \/ \E playerId \in PlayerIdInputs : Rejoin(playerId)
    \/ \E playerId \in PlayerIdInputs : Leave(playerId)
    \/ CreateMatch

SpecTurns == InitTurns /\ [][NextTurns]_vars

\* players enough for two matches joined at time 0 in the order of their ids
EightQueued ==
    /\ players = [i \in 1..(2 * MatchSize) |->
                     [Player(<<i>>) EXCEPT !.isInQueue = TRUE]]
    /\ matches = <<>>
    /\ activeMatches = <<>>
    /\ completedMatches = <<>>
    /\ badmintonQueue =
          [i \in 1..(2 * MatchSize) |->
              [player |-> i, joinTime |-> 0, weight |-> BaseWeight]]
    /\ now = 0
    /\ ticks = 0

InitTwoMatches ==
    EightQueued /\ served = MaxServed - MaxRequests /\ requests = <<>> /\ objectInQueue = FALSE

\* the server with players enough for two matches at a time
SpecTwoMatches == InitTwoMatches /\ [][Next]_vars

(***************************************************************************)
(* calculateQueueWeight on a player whose ranking and last match time are  *)
(* set as its tests set them (player.ranking = 900, player.lastMatchTime = *)
(* thirtyMinutesAgo): one registered player that waits, rejoins and        *)
(* leaves.  Waits are of 6 seconds, 15 minutes and 30 minutes.             *)
(***************************************************************************)
WeightRankings == {900, LowRankingLimit - 1, LowRankingLimit, InitialRanking}

Waits == {1, 150, 300}

InitWeights ==
    /\ \E r \in WeightRankings : \E last \in {NoTime, 0} :
          players = <<[Player(<<1>>) EXCEPT !.ranking = r, !.lastMatchTime = last]>>
    /\ matches = <<>>
    /\ activeMatches = <<>>
    /\ completedMatches = <<>>
    /\ badmintonQueue = <<>>
    /\ now = 0
    /\ ticks = 0
    /\ served = MaxServed - MaxLaterServed
    /\ requests = <<>> /\ objectInQueue = FALSE

\* the time d passes between two requests
Wait(d) ==
    /\ ticks < MaxWaits
    /\ now' = now + d
    /\ ticks' = ticks + 1
    /\ UNCHANGED <<serverState, served, requests, objectInQueue>>

NextWeights ==
    \/ \E d \in Waits : Wait(d)
    \/ \E playerId \in PlayerIdInputs : Rejoin(playerId)
    \/ \E playerId \in PlayerIdInputs : Leave(playerId)

SpecWeights == InitWeights /\ [][NextWeights]_vars

\* two idle players: the first as in InitWeights, the second one that
\* finished a match at time 0
InitQueueWeights ==
    /\ \E r \in WeightRankings : \E last \in {NoTime, 0} :
          players = <<[Player(<<1>>) EXCEPT !.ranking = r, !.lastMatchTime = last],
                      [Player(<<2>>) EXCEPT !.lastMatchTime = 0]>>
    /\ matches = <<>>
    /\ activeMatches = <<>>
    /\ completedMatches = <<>>
    /\ badmintonQueue = <<>>
    /\ now = 0
    /\ ticks = 0
    /\ served = MaxServed - MaxLaterServed
    /\ requests = <<>> /\ objectInQueue = FALSE

SpecQueueWeights == InitQueueWeights /\ [][NextWeights]_vars

(***************************************************************************)
(* Requests issued together.  Every route callback is a synchronous        *)
(* function (no await, no timer, no callback of its own), so the event     *)
(* loop runs it to its end before it starts the next one.  Here a handler  *)
(* is taken statement by statement: each statement that writes a           *)
(* collection or a player is a step, and requests[r].pc is where the       *)
(* handler of request r stands.                                            *)
(***************************************************************************)
Request(kind, id, winnerIds) ==
    [kind |-> kind, id |-> id, winnerIds |-> winnerIds, pc |-> "pending",
     k |-> 0, roster |-> <<>>, winners |-> <<>>, losers |-> <<>>,
     winnerSum |-> 0, loserSum |-> 0, before |-> <<>>]

\* the requests that are issued together
ConcurrentRequests ==
    <<Request("create-match", NoId, <<>>),
      Request("create-match", NoId, <<>>),
      Request("complete-match", 1, <<1, 2>>),
      Request("leave", MatchSize + 1, <<>>),
      Request("rejoin", MatchSize + 1, <<>>),
      Request("status", NoId, <<>>)>>

\* the players joined at time 0 in the order of their ids, and the requests
\* have been issued
InitConcurrent ==
    /\ \E n \in MatchSize..ConcurrentQueueMax :
          /\ players = [i \in 1..n |-> [Player(<<i>>) EXCEPT !.isInQueue = TRUE]]
          /\ badmintonQueue =
                [i \in 1..n |-> [player |-> i, joinTime |-> 0, weight |-> BaseWeight]]
    /\ matches = <<>>
    /\ activeMatches = <<>>
    /\ completedMatches = <<>>
    /\ now = 0
    /\ ticks = 0
    /\ served = 0
    /\ requests = ConcurrentRequests
    /\ objectInQueue = FALSE

\* whether the handler of request r is between its first and its last
\* statement
InProgress(f) == f.pc \notin {"pending", "done"}

\* a handler that sets a handler loose before its end
EventLoopNeverBusy == TRUE

\* the event loop takes the next callback only when the one it runs has
\* returned
EventLoopFree == \A r \in DOMAIN requests : ~InProgress(requests[r])

\* the event loop calls the handler of request r
Start(r) ==
    /\ requests[r].pc = "pending"
    /\ EventLoopFree
    /\ requests' = [requests EXCEPT ![r].pc = "check", ![r].before = serverState]
    /\ UNCHANGED <<serverState, now, ticks, served, objectInQueue>>

\* createMatch, lines 137-154
CreateMatchStep(r) ==
    LET f == requests[r]
        held == Min(MatchSize, Len(badmintonQueue))
    IN /\ f.kind = "create-match"
       /\ \/ /\ f.pc = "check"
             /\ requests' = [requests EXCEPT ![r].pc =
                                 IF InsufficientPlayers(badmintonQueue)
                                 THEN "done" ELSE "splice"]
             /\ UNCHANGED <<serverState, now, ticks, served, objectInQueue>>
          \/ /\ f.pc = "splice"
             /\ badmintonQueue' = SubSeq(badmintonQueue, held + 1, Len(badmintonQueue))
             /\ requests' = [requests EXCEPT
                                 ![r].roster = [i \in 1..held |-> badmintonQueue[i].player],
                                 ![r].k = 1,
                                 ![r].pc = IF held = 0 THEN "store" ELSE "flags"]
             /\ UNCHANGED <<players, matches, activeMatches, completedMatches,
                            now, ticks, served, objectInQueue>>
          \/ /\ f.pc = "flags"
             /\ players' = [players EXCEPT ![f.roster[f.k]].isInQueue = FALSE,
                                           ![f.roster[f.k]].isInMatch = TRUE]
             /\ requests' = [requests EXCEPT
                                 ![r].k = f.k + 1,
                                 ![r].pc = IF f.k = Len(f.roster) THEN "store" ELSE "flags"]
             /\ UNCHANGED <<matches, activeMatches, completedMatches, badmintonQueue,
                            now, ticks, served, objectInQueue>>
          \/ /\ f.pc = "store"
             /\ matches' = Append(matches, BadmintonMatch(f.roster, now))
             /\ activeMatches' = Append(activeMatches, Len(matches) + 1)
             /\ requests' = [requests EXCEPT ![r].pc = "done"]
             /\ UNCHANGED <<players, completedMatches, badmintonQueue,
                            now, ticks, served, objectInQueue>>

\* the complete-match handler and completeMatch, lines 275-326 and 79-99
CompleteMatchStep(r) ==
    LET f == requests[r]
    IN /\ f.kind = "complete-match"
       /\ \/ /\ f.pc = "check"
             /\ requests' =
                   IF \/ BadCompletionRequest(f.id, f.winnerIds)
                      \/ NoActiveMatch(matches, f.id)
                   THEN [requests EXCEPT ![r].pc = "done"]
                   ELSE LET winners == Winners(matches[f.id].players, f.winnerIds)
                            losers == Losers(matches[f.id].players, f.winnerIds)
                        IN IF InvalidSelection(winners, losers)
                           THEN [requests EXCEPT ![r].pc = "done"]
                           ELSE [requests EXCEPT ![r].winners = winners,
                                                 ![r].losers = losers,
                                                 ![r].pc = "mark"]
             /\ UNCHANGED <<serverState, now, ticks, served, objectInQueue>>
          \/ /\ f.pc = "mark"
             /\ matches' = [matches EXCEPT ![f.id] =
                                CompletedMatch(matches[f.id], f.winners, f.losers, now)]
             /\ requests' = [requests EXCEPT ![r].pc = "averages"]
             /\ UNCHANGED <<players, activeMatches, completedMatches, badmintonQueue,
                            now, ticks, served, objectInQueue>>
          \/ /\ f.pc = "averages"
             /\ requests' = [requests EXCEPT
                                 ![r].winnerSum = RankingSum(players, f.winners),
                                 ![r].loserSum = RankingSum(players, f.losers),
                                 ![r].roster = f.winners \o f.losers,
                                 ![r].k = 1,
                                 ![r].pc = "update"]
             /\ UNCHANGED <<serverState, now, ticks, served, objectInQueue>>
          \/ /\ f.pc = "update"
             /\ LET id == f.roster[f.k]
                    won == f.k <= Len(f.winners)
                    opponentSum == IF won THEN f.loserSum ELSE f.winnerSum
                IN players' = [players EXCEPT ![id] =
                                  [UpdateRanking(players[id], won, opponentSum)
                                      EXCEPT !.lastMatchTime = now, !.isInMatch = FALSE]]
             /\ requests' = [requests EXCEPT
                                 ![r].k = f.k + 1,
                                 ![r].pc = IF f.k = Len(f.roster) THEN "unlist" ELSE "update"]
             /\ UNCHANGED <<matches, activeMatches, completedMatches, badmintonQueue,
                            now, ticks, served, objectInQueue>>
          \/ /\ f.pc = "unlist"
             /\ LET activeIndex == ActiveIndex(activeMatches, f.id)
                IN /\ activeMatches' = IF activeIndex # 0
                                       THEN RemoveAt(activeMatches, activeIndex)
                                       ELSE activeMatches
                   /\ requests' = [requests EXCEPT ![r].pc =
                                       IF activeIndex # 0 THEN "archive" ELSE "done"]
             /\ UNCHANGED <<players, matches, completedMatches, badmintonQueue,
                            now, ticks, served, objectInQueue>>
          \/ /\ f.pc = "archive"
             /\ completedMatches' = Append(completedMatches, f.id)
             /\ requests' = [requests EXCEPT ![r].pc = "done"]
             /\ UNCHANGED <<players, matches, activeMatches, badmintonQueue,
                            now, ticks, served, objectInQueue>>

\* the leave handler and removePlayer, lines 228-246 and 128-135
LeaveStep(r) ==
    LET f == requests[r]
        index == FindIndex(badmintonQueue, f.id)
    IN /\ f.kind = "leave"
       /\ \/ /\ f.pc = "check"
             /\ badmintonQueue' = IF index # 0
                                  THEN RemoveAt(badmintonQueue, index)
                                  ELSE badmintonQueue
             /\ requests' = [requests EXCEPT ![r].pc =
                                 IF index # 0 THEN "flag" ELSE "done"]
             /\ UNCHANGED <<players, matches, activeMatches, completedMatches,
                            now, ticks, served, objectInQueue>>
          \/ /\ f.pc = "flag"
             /\ players' = [players EXCEPT ![f.id].isInQueue = FALSE]
             /\ requests' = [requests EXCEPT ![r].pc = "done"]
             /\ UNCHANGED <<matches, activeMatches, completedMatches, badmintonQueue,
                            now, ticks, served, objectInQueue>>

\* the rejoin handler and addPlayer, lines 328-355 and 103-126
RejoinStep(r) ==
    LET f == requests[r]
    IN /\ f.kind = "rejoin"
       /\ \/ /\ f.pc = "check"
             /\ requests' = [requests EXCEPT ![r].pc =
                                 IF \/ f.id \notin 1..Len(players)
                                    \/ players[f.id].isInMatch
                                    \/ AlreadyActive(players[f.id])
                                 THEN "done" ELSE "flag"]
             /\ UNCHANGED <<serverState, now, ticks, served, objectInQueue>>
          \/ /\ f.pc = "flag"
             /\ players' = [players EXCEPT ![f.id].isInQueue = TRUE]
             /\ requests' = [requests EXCEPT ![r].pc = "weigh"]
             /\ UNCHANGED <<matches, activeMatches, completedMatches, badmintonQueue,
                            now, ticks, served, objectInQueue>>
          \/ /\ f.pc = "weigh"
             /\ players' = [players EXCEPT ![f.id].queueWeight =
                                CalculateQueueWeight(players[f.id], now)]
             /\ requests' = [requests EXCEPT ![r].pc = "push"]
             /\ UNCHANGED <<matches, activeMatches, completedMatches, badmintonQueue,
                            now, ticks, served, objectInQueue>>
          \/ /\ f.pc = "push"
             /\ badmintonQueue' = Append(badmintonQueue,
                                          [player |-> f.id, joinTime |-> now,
                                           weight |-> players[f.id].queueWeight])
             /\ requests' = [requests EXCEPT ![r].pc = "sort"]
             /\ UNCHANGED <<players, matches, activeMatches, completedMatches,
                            now, ticks, served, objectInQueue>>
          \/ /\ f.pc = "sort"
             /\ badmintonQueue' \in SortOutcomes(badmintonQueue)
             /\ requests' = [requests EXCEPT ![r].pc = "done"]
             /\ UNCHANGED <<players, matches, activeMatches, completedMatches,
                            now, ticks, served, objectInQueue>>

\* the status handler, lines 175-195: it reads and answers
StatusStep(r) ==
    /\ requests[r].kind = "status"
    /\ requests[r].pc = "check"
    /\ requests' = [requests EXCEPT ![r].pc = "done"]
    /\ UNCHANGED <<serverState, now, ticks, served, objectInQueue>>

NextConcurrent ==
    \E r \in DOMAIN requests :
        \/ Start(r)
        \/ CreateMatchStep(r)
        \/ CompleteMatchStep(r)
        \/ LeaveStep(r)
        \/ RejoinStep(r)
        \/ StatusStep(r)

SpecConcurrent == InitConcurrent /\ [][NextConcurrent]_vars

(***************************************************************************)
(* Properties                                                              *)
(***************************************************************************)
\* the membership state the two flags of a player stand for
MembershipState(p) ==
    IF p.isInQueue THEN "Queued" ELSE IF p.isInMatch THEN "InSession" ELSE "Idle"

\* the outcome o leaves every collection as it is and emits nothing
NothingDone(o) == ~Changes(o) /\ o.emitted = <<>>

\* C1: the queue is sorted by the weight of its entries in descending order,
\* and entries of equal weight stand in ascending order of admission.
C1_QueueSorted ==
    \A i, j \in 1..Len(badmintonQueue) :
        i < j =>
            \/ badmintonQueue[i].weight > badmintonQueue[j].weight
            \/ /\ badmintonQueue[i].weight = badmintonQueue[j].weight
               /\ badmintonQueue[i].joinTime <= badmintonQueue[j].joinTime

C3_MembershipExclusive ==
    \A id \in PlayerIds : ~(players[id].isInQueue /\ players[id].isInMatch)

C3_Witness ==
    /\ \E id \in PlayerIds : players[id].isInMatch
    /\ \E id \in PlayerIds : players[id].isInQueue

\* C4: in every step the membership state of a player stays as it is or
\* moves along Idle -> Queued, Queued -> Idle, Queued -> InSession or
\* InSession -> Idle; a player that is created starts as Idle or Queued.
C4_Transitions ==
    [][/\ \A id \in PlayerIds :
             \/ MembershipState(players'[id]) = MembershipState(players[id])
             \/ <<MembershipState(players[id]), MembershipState(players'[id])>>
                   \in {<<"Idle", "Queued">>, <<"Queued", "Idle">>,
                        <<"Queued", "InSession">>, <<"InSession", "Idle">>}
       /\ \A id \in (1..Len(players')) \ PlayerIds :
             MembershipState(players'[id]) \in {"Idle", "Queued"}]_vars

\* a player that has been through a match and is queued again
C4_Witness ==
    \E id \in PlayerIds :
        /\ players[id].totalMatches > 0
        /\ MembershipState(players[id]) = "Queued"

\* C5: a player is flagged as queued exactly if the queue holds exactly one
\* entry for it; the queue never holds two entries for one player.
C5_QueuedIffOneEntry ==
    /\ \A id \in PlayerIds :
          LET entries == {i \in 1..Len(badmintonQueue) : badmintonQueue[i].player = id}
          IN /\ players[id].isInQueue <=> Cardinality(entries) = 1
             /\ Cardinality(entries) <= 1
    /\ \A i \in 1..Len(badmintonQueue) : badmintonQueue[i].player \in PlayerIds

\* the queue holds an entry after others left it for a match that is over
C5_Witness ==
    /\ badmintonQueue # <<>>
    /\ \E id \in PlayerIds :
          MembershipState(players[id]) = "Idle" /\ players[id].totalMatches > 0

C7_CreateMatchRefusedNoEffect ==
    Len(badmintonQueue) < 4 =>
        /\ ~CreateMatchHandler.response.success
        /\ CreateMatchHandler.response.message = "Need at least 4 players to create a match"
        /\ CreateMatchHandler.badmintonQueue = badmintonQueue
        /\ CreateMatchHandler.players = players
        /\ CreateMatchHandler.activeMatches = activeMatches
        /\ CreateMatchHandler.matches = matches
        /\ CreateMatchHandler.emitted = <<>>

\* createMatch is refused with players waiting
C7_Witness ==
    /\ Len(badmintonQueue) = 3
    /\ ~CreateMatchHandler.response.success

\* C8: a completion updates every player of the roster once: a win more for
\* each winner, a loss more for each loser, a match more for all, the last
\* match time set to the time of the completion and the player idle; the
\* match gets its end time, result and status and moves from the active
\* matches to the completed ones.
C8_CompletionUpdatesRoster ==
    [][\A m \in MatchIds :
          (matches[m].status = "active" /\ matches'[m].status = "completed") =>
             LET roster == matches[m].players
                 result == matches'[m].result
             IN /\ matches'[m].players = roster
                /\ matches'[m].endTime = now
                /\ Len(result) = 1
                /\ Range(result[1].winners) \cup Range(result[1].losers) = Range(roster)
                /\ \A k \in 1..Len(roster) :
                      LET before == players[roster[k]]
                          after == players'[roster[k]]
                          won == roster[k] \in Range(result[1].winners)
                      IN /\ after.wins = before.wins + (IF won THEN 1 ELSE 0)
                         /\ after.losses = before.losses + (IF won THEN 0 ELSE 1)
                         /\ after.totalMatches = before.totalMatches + 1
                         /\ after.lastMatchTime = now
                         /\ ~after.isInMatch /\ ~after.isInQueue
                /\ m \in Range(activeMatches) /\ m \notin Range(activeMatches')
                /\ m \notin Range(completedMatches) /\ m \in Range(completedMatches')]_vars

\* a match has been completed after time has passed
C8_Witness ==
    \E m \in MatchIds :
        /\ matches[m].status = "completed"
        /\ matches[m].endTime > 0
        /\ m \in Range(completedMatches)

\* whether winnerIds names exactly two distinct players of the roster
NamesTwoMembers(roster, winnerIds) ==
    /\ winnerIds # Missing
    /\ Len(winnerIds) = 2
    /\ winnerIds[1] # winnerIds[2]
    /\ winnerIds[1] \in Range(roster)
    /\ winnerIds[2] \in Range(roster)

\* C9: the completion of an active match is refused (400) whenever winnerIds
\* does not name exactly two distinct players of its roster, and then no
\* player, match or list is changed.
C9_InvalidOutcomeRefused ==
    \A m \in ActiveIds : \A w \in WrongCounts \cup WinnerPairs :
        LET o == CompleteMatchHandler(m, w)
        IN ~NamesTwoMembers(matches[m].players, w) =>
              /\ o.response.status = 400
              /\ ~o.response.success
              /\ NothingDone(o)

\* a match is active, and a completion that names one of its players twice
\* is refused
C9_Witness ==
    \E m \in ActiveIds :
        LET first == matches[m].players[1]
        IN CompleteMatchHandler(m, <<first, first>>).response.message
              = "Invalid winner selection"

\* the pairs of winner ids tried on a match that is not active: two players
\* and one player twice
RefusedPairs == {<<1, 2>>, <<1, 1>>}

\* C10 as claimed: the completion of a match that is not active is answered
\* 404 whatever winnerIds is, and changes nothing.
C10_NotActiveAlways404 ==
    \A m \in {NoId} \cup (MatchIds \ ActiveIds) : \A w \in WrongCounts \cup RefusedPairs :
        LET o == CompleteMatchHandler(m, w)
        IN /\ o.response.status = 404
           /\ NothingDone(o)

\* C10 as amended: the completion of a match that is not active changes
\* nothing; it is answered 404 when winnerIds is a list of two ids, and 400
\* when it is missing or of another length.
C10_NotActiveRefused ==
    \A m \in {NoId} \cup (MatchIds \ ActiveIds) : \A w \in WrongCounts \cup RefusedPairs :
        LET o == CompleteMatchHandler(m, w)
        IN /\ NothingDone(o)
           /\ ~o.response.success
           /\ o.response.status = (IF w # Missing /\ Len(w) = 2 THEN 404 ELSE 400)

\* a completed match, the completion of which is asked for again
C10_Witness ==
    \E m \in MatchIds :
        /\ matches[m].status = "completed"
        /\ CompleteMatchHandler(m, matches[m].result[1].winners).response.status = 404

\* C11: the completion of a match that has been completed, asked for again
\* with the same winners (in either order), is answered 404 'Active match
\* not found' and leaves every player (ranking, wins, losses, total matches,
\* last match time) and every collection as the first completion left them.
C11_SecondCompletionRefused ==
    \A m \in Range(completedMatches) :
        LET first == matches[m].result[1].winners
        IN \A w \in {first, <<first[2], first[1]>>} :
              LET o == CompleteMatchHandler(m, w)
              IN /\ o.response.status = 404
                 /\ ~o.response.success
                 /\ o.response.message = "Active match not found"
                 /\ \A id \in PlayerIds : o.players[id] = players[id]
                 /\ NothingDone(o)

\* a match was completed, time has passed since, and its completion is asked
\* for again
C11_Witness ==
    \E m \in Range(completedMatches) :
        /\ now > matches[m].endTime
        /\ CompleteMatchHandler(m, matches[m].result[1].winners).response.message
              = "Active match not found"

\* C12: in every step no match leaves matches; a completed match stays as
\* it is; an active match keeps its roster and start time, and either stays
\* as it is or becomes completed, which only a successful completion of it
\* does; a match that is added is active.
C12_MatchLifecycle ==
    [][/\ Len(matches') >= Len(matches)
       /\ \A m \in MatchIds :
             /\ matches'[m].players = matches[m].players
             /\ matches'[m].startTime = matches[m].startTime
             /\ matches[m].status \in {"active", "completed"}
             /\ matches[m].status = "completed" => matches'[m] = matches[m]
             /\ matches[m].status = "active" =>
                    \/ matches'[m] = matches[m]
                    \/ /\ matches'[m].status = "completed"
                       /\ \E w \in WinnerPairs :
                             /\ CompleteMatchHandler(m, w).response.success
                             /\ CompleteMatchHandler(m, w).matches = matches'
       /\ \A m \in (1..Len(matches')) \ MatchIds : matches'[m].status = "active"]_vars

\* a completed match one of whose players has joined the queue again
C12_Witness ==
    \E m \in MatchIds :
        /\ matches[m].status = "completed"
        /\ \E k \in 1..MatchSize : players[matches[m].players[k]].isInQueue

\* C13: for a player that is in the queue or in a match, join with its name
\* (bare or padded with blanks) and rejoin with its id are refused, and
\* neither changes the queue, a player or any other collection, nor emits
\* anything.
C13_AdmitActiveRefused ==
    \A id \in PlayerIds :
        (players[id].isInQueue \/ players[id].isInMatch) =>
            /\ \A raw \in {players[id].name, <<Blank>> \o players[id].name \o <<Blank>>} :
                  \A o \in JoinHandler(raw) :
                      /\ ~o.response.success
                      /\ o.response.message = "Player already in queue or match"
                      /\ NothingDone(o)
            /\ \A o \in RejoinHandler(id) :
                  /\ ~o.response.success
                  /\ o.response.message =
                        (IF players[id].isInMatch
                         THEN "Player is currently in a match"
                         ELSE "Player already in queue or match")
                  /\ NothingDone(o)

\* a player in a match whose rejoin is refused, and a player in the queue
\* whose join is refused
C13_Witness ==
    /\ \E id \in PlayerIds :
          /\ players[id].isInMatch
          /\ \E o \in RejoinHandler(id) : o.response.status = 400
    /\ \E id \in PlayerIds :
          /\ players[id].isInQueue
          /\ \E o \in JoinHandler(players[id].name) : ~o.response.success

\* whether the player has never played: its ranking is the initial one and it
\* has no last match time
NeverPlayed(p) ==
    p.totalMatches = 0 /\ p.lastMatchTime = NoTime /\ p.ranking = InitialRanking

\* the entry of the player id is the pos-th of the queue q
EntryAt(q, pos, id) == pos \in 1..Len(q) /\ q[pos].player = id

\* C14: addPlayer, when it admits a player (one of the registry, or one that
\* join has just registered), returns the 1-based position that the player's
\* entry has in the queue it leaves behind.  A player that never played and
\* is admitted to the empty queue gets weight 1.0 and position 1; a second
\* such player admitted next gets weight 1.0 and position 2, behind the
\* first.
C14_AdmitReturnsPosition ==
    \A id \in 1..Min(Len(players) + 1, MaxPlayers) :
        LET registry == IF id > Len(players)
                        THEN Append(players, Player(<<id>>))
                        ELSE players
            held == Len(badmintonQueue)
        IN \A result \in AddPlayer(registry, badmintonQueue, id, now) :
              result.success =>
                  /\ EntryAt(result.queue, result.queuePosition, id)
                  /\ (/\ NeverPlayed(registry[id])
                      /\ held <= 1
                      /\ \A i \in 1..held :
                            NeverPlayed(players[badmintonQueue[i].player])) =>
                        /\ result.queuePosition = held + 1
                        /\ result.queue[held + 1].weight = BaseWeight
                        /\ \A i \in 1..held :
                              /\ result.queue[i] = badmintonQueue[i]
                              /\ badmintonQueue[i].weight = BaseWeight

\* a player that waited since its match is admitted to a queue that holds an
\* entry, and is put first
C14_Witness ==
    \E id \in PlayerIds : \E result \in AddPlayer(players, badmintonQueue, id, now) :
        /\ result.success
        /\ badmintonQueue # <<>>
        /\ result.queuePosition = 1

\* C15: leave with an id that has no entry in the queue (the id of no player,
\* of an idle player or of a player in a match) is refused with 'Player not
\* in queue', changes no player, match or list and emits nothing; a player in
\* a match stays in it and on its roster.
C15_LeaveNotQueuedRefused ==
    \A id \in PlayerIdInputs :
        (\A i \in 1..Len(badmintonQueue) : badmintonQueue[i].player # id) =>
            LET o == LeaveHandler(id)
            IN /\ ~o.response.success
               /\ o.response.message = "Player not in queue"
               /\ NothingDone(o)
               /\ (id \in PlayerIds /\ players[id].isInMatch) =>
                     /\ o.players[id].isInMatch
                     /\ \E m \in Range(o.activeMatches) :
                           id \in Range(o.matches[m].players)

\* leave is asked for a player in a match and for an idle one
C15_Witness ==
    /\ \E id \in PlayerIds :
          players[id].isInMatch /\ ~LeaveHandler(id).response.success
    /\ \E id \in PlayerIds :
          /\ ~players[id].isInMatch /\ ~players[id].isInQueue
          /\ ~LeaveHandler(id).response.success

\* C16: leave with the id of a player that has an entry in the queue
\* succeeds and returns that player; the queue it leaves is the queue without
\* that entry, every other entry as it was and in the same order; the player
\* is idle and otherwise as it was; every other player and every match stay
\* as they are.
C16_LeaveRemovesOneEntry ==
    \A id \in PlayerIds :
        (\E i \in 1..Len(badmintonQueue) : badmintonQueue[i].player = id) =>
            LET o == LeaveHandler(id)
                others(e) == e.player # id
            IN /\ o.response.success
               /\ o.response.data[1].player = id
               /\ o.badmintonQueue = SelectSeq(badmintonQueue, others)
               /\ Len(o.badmintonQueue) = Len(badmintonQueue) - 1
               /\ MembershipState(o.players[id]) = "Idle"
               /\ o.players = [players EXCEPT ![id].isInQueue = FALSE]
               /\ o.matches = matches
               /\ o.activeMatches = activeMatches
               /\ o.completedMatches = completedMatches

\* the player in the middle of a queue of entries that joined at different
\* times leaves
C16_Witness ==
    /\ Len(badmintonQueue) >= 3
    /\ badmintonQueue[1].joinTime # badmintonQueue[3].joinTime
    /\ LeaveHandler(badmintonQueue[2].player).response.success

\* C17: for every idle player, a successful join (by its name) or rejoin
\* followed at once by its leave gives the queue as it was before, entry by
\* entry, and leaves the player idle.
C17_AdmitThenLeaveRestores ==
    \A id \in PlayerIds :
        MembershipState(players[id]) = "Idle" =>
            \A o \in RejoinHandler(id) \cup JoinHandler(players[id].name) :
                o.response.success =>
                    LET left == RemovePlayer(o.players, o.badmintonQueue, id)
                    IN /\ left.success
                       /\ MembershipState(left.players[id]) = "Idle"
                       /\ Len(left.queue) = Len(badmintonQueue)
                       /\ left.queue = badmintonQueue

\* C18: after every step, the result of every completed match holds two
\* winners and two losers, half of the roster each, no player on both sides
\* and every player of the roster on one; and in the step that completes a
\* match every player of its roster becomes idle.
C18_ResultPartitionsRoster ==
    [][/\ \A m \in 1..Len(matches') :
             matches'[m].status = "completed" =>
                 LET roster == matches'[m].players
                     result == matches'[m].result
                 IN /\ Len(result) = 1
                    /\ Len(result[1].winners) = Len(roster) \div 2
                    /\ Len(result[1].losers) = Len(roster) \div 2
                    /\ Cardinality(Range(result[1].winners)) = 2
                    /\ Cardinality(Range(result[1].losers)) = 2
                    /\ Range(result[1].winners) \cap Range(result[1].losers) = {}
                    /\ Range(result[1].winners) \cup Range(result[1].losers)
                          = Range(roster)
       /\ \A m \in MatchIds :
             (matches[m].status = "active" /\ matches'[m].status = "completed") =>
                 \A k \in 1..Len(matches[m].players) :
                     MembershipState(players'[matches[m].players[k]]) = "Idle"]_vars

\* a completed match that the first and the last player of the roster won
C18_Witness ==
    \E m \in MatchIds :
        /\ matches[m].status = "completed"
        /\ matches[m].result[1].winners
              = <<matches[m].players[1], matches[m].players[MatchSize]>>

\* C19: for every player, wins plus losses equals totalMatches.
C19_WinsPlusLossesIsTotal ==
    \A id \in PlayerIds :
        players[id].wins + players[id].losses = players[id].totalMatches

\* one player has won a match and another has lost one
C19_Witness ==
    \E a, b \in PlayerIds :
        /\ players[a].wins = 1 /\ players[a].losses = 0
        /\ players[b].losses = 1 /\ players[b].wins = 0

\* C20: in every step that completes a match, the rankings its players get
\* are those of updateRanking applied to each player's ranking before the
\* call, the sum of the other side's rankings before the call and whether
\* the player won, nothing else of the player or of the state counting; and
\* updating the four players one after the other gives the same players in
\* whatever order the sides and their members are taken.
C20_RankingsFromPriorAverages ==
    [][\A m \in ActiveIds :
          matches'[m].status = "completed" =>
              LET roster == matches[m].players
                  winners == matches'[m].result[1].winners
                  losers == matches'[m].result[1].losers
              IN /\ \A order \in Reorderings(roster) :
                       UpdatedInOrder(players, order, winners, losers, players, now)
                         = players'
                 /\ \A id \in Range(roster) :
                       LET won == id \in Range(winners)
                           fresh == [Player(<<>>) EXCEPT !.ranking = players[id].ranking]
                           opponentSum ==
                               RankingSum(players, IF won THEN losers ELSE winners)
                       IN players'[id].ranking
                            = UpdateRanking(fresh, won, opponentSum).ranking]_vars

\* the match of the players ranked 1300, 1250, 1150 and 1100 has been
\* completed, the first two having won
C20_Witness ==
    /\ matches # <<>>
    /\ matches[1].status = "completed"
    /\ matches[1].result[1].winners = <<1, 2>>
    /\ [i \in 1..MatchSize |-> players[i].ranking] = <<1309, 1260, 1140, 1091>>

\* the weight as the claim C21 words it, in hundredths: 1.0 + B + A rounded,
\* B = min(minutes / 30, 2.0), A = 0.3 below 1000; a hundredth of B is 3
\* units of time, so the sum is rounded from its thirds
ClaimedWeight(p, t) ==
    LET thirdsB == IF p.lastMatchTime # NoTime
                   THEN Min(t - p.lastMatchTime, 3 * MaxTimeBonus)
                   ELSE 0
        thirdsA == IF p.ranking < LowRankingLimit THEN 3 * LowRankingBonus ELSE 0
        thirds == 3 * BaseWeight + thirdsB + thirdsA
    IN (2 * thirds + 3) \div 6

C22_CapAtThirtyMinutes ==
    \A id \in PlayerIds : \A result \in AddPlayer(players, badmintonQueue, id, now) :
        (/\ result.success
         /\ players[id].ranking = 1200
         /\ players[id].lastMatchTime # NoTime) =>
            LET waited == now - players[id].lastMatchTime
                w == result.queue[result.queuePosition].weight
            IN /\ waited = 450 => w = 300
               /\ waited >= 300 => w = 300

C24_EqualOpponentSixteen ==
    [][/\ \A id \in PlayerIds :
             /\ UpdateRanking(players[id], TRUE, 2 * players[id].ranking).ranking
                   = players[id].ranking + 16
             /\ UpdateRanking(players[id], FALSE, 2 * players[id].ranking).ranking
                   = players[id].ranking - 16
       /\ \A m \in ActiveIds :
             matches'[m].status = "completed" =>
                 LET winners == matches'[m].result[1].winners
                     losers == matches'[m].result[1].losers
                 IN /\ \A k \in 1..Len(winners) :
                          2 * players[winners[k]].ranking = RankingSum(players, losers) =>
                              players'[winners[k]].ranking
                                = players[winners[k]].ranking + 16
                    /\ \A k \in 1..Len(losers) :
                          2 * players[losers[k]].ranking = RankingSum(players, winners) =>
                              players'[losers[k]].ranking
                                = players[losers[k]].ranking - 16]_vars

\* a player ranked 1250 has beaten players ranked 1200 and 1300, and a
\* player ranked 1200 has lost to players ranked 1250 and 1150
C24_Witness ==
    /\ matches # <<>>
    /\ matches[1].status = "completed"
    /\ \E a \in Range(matches[1].result[1].winners) : players[a].ranking = 1266
    /\ \E b \in Range(matches[1].result[1].losers) : players[b].ranking = 1184

\* the rankings of the players of a side, before the step
RankingsOf(side) == {players[side[k]].ranking : k \in 1..Len(side)}

\* C25: in every step that completes a match between the players ranked
\* 1300 and 1250 and the players ranked 1150 and 1100: when the higher
\* ranked side wins, each winner gains more than 0 and fewer than 16 points
\* and each loser loses more than 0 and fewer than 16; when the lower ranked
\* side wins, each winner gains more than 16 and each loser loses more than
\* 16.
C25_FavouritesAndUpset ==
    [][\A m \in ActiveIds :
          matches'[m].status = "completed" =>
              LET winners == matches'[m].result[1].winners
                  losers == matches'[m].result[1].losers
                  gain(id) == players'[id].ranking - players[id].ranking
              IN /\ (RankingsOf(winners) = {1300, 1250}
                        /\ RankingsOf(losers) = {1150, 1100}) =>
                        /\ \A k \in 1..Len(winners) :
                              gain(winners[k]) > 0 /\ gain(winners[k]) < 16
                        /\ \A k \in 1..Len(losers) :
                              gain(losers[k]) < 0 /\ gain(losers[k]) > -16
                 /\ (RankingsOf(winners) = {1150, 1100}
                        /\ RankingsOf(losers) = {1300, 1250}) =>
                        /\ \A k \in 1..Len(winners) : gain(winners[k]) > 16
                        /\ \A k \in 1..Len(losers) : gain(losers[k]) < -16]_vars

\* the match of the players ranked 1300, 1250, 1150 and 1100 has been
\* completed, the last two having won
C25_Witness ==
    /\ matches # <<>>
    /\ matches[1].status = "completed"
    /\ matches[1].result[1].winners = <<3, 4>>
    /\ [i \in 1..MatchSize |-> players[i].ranking] = <<1277, 1228, 1172, 1123>>

\* twice the opponent rankings tried on a player ranked r: those at which
\* the rounded gain becomes 1, 16, 17 and 32, those just below, and two far
\* away
OpponentSums(r) ==
    {2 * r + EloSteps[k] - e : k \in {1, KFactor \div 2, KFactor \div 2 + 1, KFactor},
                               e \in {0, 1}}
        \cup {2 * r - 3000, 2 * r + 3000}

\* C26: in every step that completes a match, every winner's ranking is an
\* integer not below the prior one and at most 32 above it, and every
\* loser's is an integer not above the prior one and at most 32 below it; and
\* updateRanking gives such rankings for every player of the match against
\* every opponent ranking tried, with won = true and with won = false.
C26_ChangeWithinK ==
    [][\A m \in ActiveIds :
          matches'[m].status = "completed" =>
              LET winners == matches'[m].result[1].winners
                  losers == matches'[m].result[1].losers
                  gain(id) == players'[id].ranking - players[id].ranking
              IN /\ \A k \in 1..Len(winners) :
                       /\ players'[winners[k]].ranking \in Int
                       /\ gain(winners[k]) >= 0 /\ gain(winners[k]) <= 32
                 /\ \A k \in 1..Len(losers) :
                       /\ players'[losers[k]].ranking \in Int
                       /\ gain(losers[k]) <= 0 /\ gain(losers[k]) >= -32
                 /\ \A id \in Range(matches[m].players) :
                       \A opponentSum \in OpponentSums(players[id].ranking) :
                           LET r == players[id].ranking
                               win == UpdateRanking(players[id], TRUE, opponentSum).ranking
                               loss == UpdateRanking(players[id], FALSE, opponentSum).ranking
                           IN /\ win \in Int /\ win >= r /\ win <= r + 32
                              /\ loss \in Int /\ loss <= r /\ loss >= r - 32]_vars

\* two players ranked 1100 have beaten two players ranked 1300: the largest
\* change of the rankings tried, 24 points
C26_Witness ==
    /\ matches # <<>>
    /\ matches[1].status = "completed"
    /\ matches[1].result[1].winners = <<1, 2>>
    /\ [i \in 1..MatchSize |-> players[i].ranking] = <<1124, 1124, 1276, 1276>>

\* the outcome o, if it is a failure, comes with no notification
FailsSilently(o) ==
    (~o.response.success \/ o.response.status # 200) => o.emitted = <<>>

\* C27: no request that fails emits a notification, whatever request it is:
\* join (no name, a blank name, the name of a player in the queue or in a
\* match), rejoin (an unknown player, one in a match, one in the queue),
\* leave (no entry), create-match (fewer than 4 entries) and complete-match
\* (a wrong count of winners, a match that is not active, winners that are
\* not two players of the match).
C27_FailureEmitsNothing ==
    /\ \A raw \in NameInputs : \A o \in JoinHandler(raw) : FailsSilently(o)
    /\ \A id \in PlayerIdInputs : \A o \in RejoinHandler(id) : FailsSilently(o)
    /\ \A id \in PlayerIdInputs : FailsSilently(LeaveHandler(id))
    /\ FailsSilently(CreateMatchHandler)
    /\ \A c \in CompletionInputs : FailsSilently(CompleteMatchHandler(c[1], c[2]))

\* with a match active and a player in the queue, a request of each kind
\* fails
C27_Witness ==
    /\ \E id \in PlayerIds :
          /\ players[id].isInQueue
          /\ \E o \in JoinHandler(players[id].name) : ~o.response.success
          /\ \E o \in RejoinHandler(id) : ~o.response.success
    /\ \E id \in PlayerIds :
          /\ players[id].isInMatch
          /\ \E o \in RejoinHandler(id) : o.response.status = 400
          /\ ~LeaveHandler(id).response.success
    /\ \E o \in JoinHandler(<<Blank>>) : o.response.status = 400
    /\ \E o \in RejoinHandler(Len(players) + 1) : o.response.status = 404
    /\ ~CreateMatchHandler.response.success
    /\ \E m \in ActiveIds :
          /\ CompleteMatchHandler(m, <<1>>).response.status = 400
          /\ CompleteMatchHandler(m, <<matches[m].players[1], matches[m].players[1]>>)
                .response.status = 400
    /\ CompleteMatchHandler(NoId, <<1, 2>>).response.status = 404

\* the update that tells the state the outcome o leaves behind
UpdateAfter(o) ==
    BadmintonUpdate(o.players, o.matches, o.activeMatches, o.badmintonQueue)

\* the notification e lists the players of the roster with the rankings the
\* outcome o leaves them
ListsRoster(e, o, roster) ==
    e = [k \in 1..Len(roster) |-> PlayerView(o.players, roster[k])]

\* C28: every request that succeeds and changes the state emits its
\* notifications with the state it leaves behind: join, rejoin and leave
\* emit one badmintonUpdate (the queue and the active matches after the
\* request); create-match emits matchCreated with the four players of the
\* new match and then badmintonUpdate; complete-match emits matchCompleted
\* with the roster, the winners and the losers at their new rankings and the
\* end time, and then badmintonUpdate, in which the completed match is no
\* longer among the active ones.
C28_SuccessEmitsPostState ==
    /\ \A raw \in NameInputs : \A o \in JoinHandler(raw) :
          o.response.success => o.emitted = <<UpdateAfter(o)>>
    /\ \A id \in PlayerIdInputs : \A o \in RejoinHandler(id) :
          o.response.success => o.emitted = <<UpdateAfter(o)>>
    /\ \A id \in PlayerIdInputs :
          LET o == LeaveHandler(id)
          IN o.response.success => o.emitted = <<UpdateAfter(o)>>
    /\ LET o == CreateMatchHandler
           id == Len(o.matches)
       IN o.response.success =>
             /\ Len(o.emitted) = 2
             /\ o.emitted[1].type = "matchCreated"
             /\ o.emitted[1].match.id = id
             /\ Len(o.emitted[1].match.players) = MatchSize
             /\ ListsRoster(o.emitted[1].match.players, o, o.matches[id].players)
             /\ o.emitted[1].match.status = "active"
             /\ o.emitted[2] = UpdateAfter(o)
             /\ \E i \in 1..Len(o.emitted[2].activeMatches) :
                   o.emitted[2].activeMatches[i].id = id
    /\ \A c \in CompletionInputs :
          LET o == CompleteMatchHandler(c[1], c[2])
          IN o.response.success =>
                LET done == o.matches[c[1]]
                IN /\ Len(o.emitted) = 2
                   /\ o.emitted[1].type = "matchCompleted"
                   /\ o.emitted[1].match.id = c[1]
                   /\ ListsRoster(o.emitted[1].match.players, o, done.players)
                   /\ ListsRoster(o.emitted[1].match.result.winners, o,
                                  done.result[1].winners)
                   /\ ListsRoster(o.emitted[1].match.result.losers, o,
                                  done.result[1].losers)
                   /\ o.emitted[1].match.endTime = now
                   /\ o.emitted[2] = UpdateAfter(o)
                   /\ \A i \in 1..Len(o.emitted[2].activeMatches) :
                         o.emitted[2].activeMatches[i].id # c[1]

\* a match has been created and completed and one of its players has
\* rejoined the queue; its leave succeeds, and so does the rejoin of another
C28_Witness ==
    /\ \E m \in MatchIds : matches[m].status = "completed"
    /\ \E id \in PlayerIds :
          /\ players[id].totalMatches > 0
          /\ players[id].isInQueue
          /\ LeaveHandler(id).response.success
    /\ \E id \in PlayerIds :
          /\ players[id].totalMatches > 0
          /\ \E o \in RejoinHandler(id) : o.response.success

\* C29: the status request changes no player, match, list or queue entry and
\* emits nothing; it reports the entries of the queue in the order of the
\* queue, numbered 1..n, with the weight and the join time each entry holds,
\* the active matches and no other, and every registered player.
C29_StatusIsPureRead ==
    LET o == StatusHandler
        body == o.response.data[1]
    IN /\ NothingDone(o)
       /\ body.queue.length = Len(badmintonQueue)
       /\ body.queue.canCreateMatch <=> Len(badmintonQueue) >= 4
       /\ Len(body.queue.queue) = Len(badmintonQueue)
       /\ \A i \in 1..Len(badmintonQueue) :
             /\ body.queue.queue[i].position = i
             /\ body.queue.queue[i].player.id = badmintonQueue[i].player
             /\ body.queue.queue[i].player.weight = badmintonQueue[i].weight
             /\ body.queue.queue[i].player.ranking
                   = players[badmintonQueue[i].player].ranking
             /\ body.queue.queue[i].joinTime = badmintonQueue[i].joinTime
       /\ {body.activeMatches[i].id : i \in 1..Len(body.activeMatches)} = ActiveIds
       /\ Len(body.activeMatches) = Cardinality(ActiveIds)
       /\ \A i \in 1..Len(body.activeMatches) :
             /\ body.activeMatches[i].status = "active"
             /\ [k \in 1..MatchSize |-> body.activeMatches[i].players[k].id]
                   = matches[body.activeMatches[i].id].players
       /\ Len(body.players) = Len(players)
       /\ \A id \in PlayerIds :
             /\ body.players[id].id = id
             /\ body.players[id].name = players[id].name
             /\ body.players[id].ranking = players[id].ranking
             /\ body.players[id].isInQueue = players[id].isInQueue
             /\ body.players[id].isInMatch = players[id].isInMatch

\* status is asked with a match active, a player in the queue and a player
\* more registered than the match has
C29_Witness ==
    /\ ActiveIds # {}
    /\ badmintonQueue # <<>>
    /\ Len(StatusHandler.response.data[1].players) > MatchSize
    /\ StatusHandler.response.data[1].queue.queue[1].position = 1


\* what the handler of request f leaves when it runs alone from the state
\* f.before
SerialOutcomes(f) ==
    LET b == f.before
    IN CASE f.kind = "create-match" ->
              IF InsufficientPlayers(b[5])
              THEN {b}
              ELSE {<<PlayersInMatch(b[1], MatchPlayers(b[5])),
                      Append(b[2], BadmintonMatch(MatchPlayers(b[5]), now)),
                      Append(b[3], Len(b[2]) + 1),
                      b[4],
                      QueueAfterMatch(b[5])>>}
         [] f.kind = "complete-match" ->
              IF BadCompletionRequest(f.id, f.winnerIds) \/ NoActiveMatch(b[2], f.id)
              THEN {b}
              ELSE LET winners == Winners(b[2][f.id].players, f.winnerIds)
                       losers == Losers(b[2][f.id].players, f.winnerIds)
                   IN IF InvalidSelection(winners, losers)
                      THEN {b}
                      ELSE {<<[i \in 1..Len(b[1]) |->
                                 CompletedPlayer(b[1], i, winners, losers, now)],
                              [b[2] EXCEPT ![f.id] =
                                 CompletedMatch(b[2][f.id], winners, losers, now)],
                              RemoveAt(b[3], ActiveIndex(b[3], f.id)),
                              Append(b[4], f.id),
                              b[5]>>}
         [] f.kind = "leave" ->
              LET result == RemovePlayer(b[1], b[5], f.id)
              IN {<<result.players, b[2], b[3], b[4], result.queue>>}
         [] f.kind = "rejoin" ->
              IF f.id \notin 1..Len(b[1]) \/ b[1][f.id].isInMatch
              THEN {b}
              ELSE {<<result.players, b[2], b[3], b[4], result.queue>> :
                      result \in AddPlayer(b[1], b[5], f.id, now)}
         [] OTHER -> {b}

\* the rosters of the active matches that list the player
ActiveRostersOf(id) ==
    {i \in 1..Len(activeMatches) : id \in Range(matches[activeMatches[i]].players)}

\* a state in the middle of a session's formation or resolution
PartlyDone ==
    \/ \E m \in 1..Len(matches) :
          /\ matches[m].status = "completed"
          /\ \/ ActiveIndex(activeMatches, m) # 0
             \/ m \notin Range(completedMatches)
             \/ \E id \in Range(matches[m].players) : players[id].totalMatches = 0
    \/ \E m \in 1..Len(matches) :
          /\ matches[m].status = "active"
          /\ ActiveIndex(activeMatches, m) = 0
    \/ \E id \in PlayerIds :
          \/ players[id].isInMatch /\ ActiveRostersOf(id) = {}
          \/ players[id].isInQueue /\ FindIndex(badmintonQueue, id) = 0
          \/ ~players[id].isInQueue /\ FindIndex(badmintonQueue, id) # 0

\* C30: requests that arrive together are handled one after the other: no
\* handler starts while another has not returned, and what a handler leaves
\* is what it leaves when it runs alone from the state it found.  Two
\* requests to form a match, issued together against a queue of four to
\* seven players, form one match and no more; no player is on the rosters of
\* two active matches; a status request never reads a state in the middle of
\* a formation or a resolution.
C30_RequestsAreSerialized ==
    [][ /\ Cardinality({r \in DOMAIN requests' : InProgress(requests'[r])}) <= 1
        /\ \A r \in DOMAIN requests :
              (InProgress(requests[r]) /\ requests'[r].pc = "done")
                  => serverState' \in SerialOutcomes(requests[r])
        /\ \A r \in DOMAIN requests :
              (requests[r].kind = "status" /\ InProgress(requests[r]))
                  => ~PartlyDone
        /\ ( /\ requests' # <<>>
             /\ \A r \in DOMAIN requests' : requests'[r].pc = "done"
             /\ Len(players') \in MatchSize..(2 * MatchSize - 1) )
              => Len(matches') = 1
        /\ \A id \in 1..Len(players') :
              Cardinality({i \in 1..Len(activeMatches') :
                 id \in Range(matches'[activeMatches'[i]].players)}) <= 1
      ]_vars

\* every request has been handled: seven players queued, the first four
\* played match 1 and it is completed, the fifth left and came back behind
\* the two who stayed
C30_Witness ==
    /\ requests # <<>>
    /\ \A r \in DOMAIN requests : requests[r].pc = "done"
    /\ Len(players) = 2 * MatchSize - 1
    /\ Len(matches) = 1
    /\ matches[1].status = "completed"
    /\ completedMatches = <<1>>
    /\ [i \in 1..Len(badmintonQueue) |-> badmintonQueue[i].player]
          = <<MatchSize + 2, MatchSize + 3, MatchSize + 1>>


\* the rating and the record of a player
Record(p) ==
    [name |-> p.name, ranking |-> p.ranking, wins |-> p.wins, losses |-> p.losses,
     totalMatches |-> p.totalMatches, lastMatchTime |-> p.lastMatchTime]

\* C31: no two registered players have the same name; a join whose trimmed
\* name is that of a registered player registers nobody, answers with that
\* player's id and ranking and leaves the player's rating and record as they
\* were; a join with a name nobody has registers one player under the
\* trimmed name.
C31_JoinReusesByName ==
    /\ \A i, j \in PlayerIds : players[i].name = players[j].name => i = j
    /\ \A raw \in NameInputs : ~NameRequired(raw) =>
          LET found == FindByName(players, Trim(raw))
          IN \A o \in JoinHandler(raw) :
                IF found # NoId
                THEN /\ Len(o.players) = Len(players)
                     /\ o.response.data[1].player
                           = [id |-> found, name |-> Trim(raw),
                              ranking |-> players[found].ranking]
                     /\ \A id \in PlayerIds : Record(o.players[id]) = Record(players[id])
                ELSE /\ Len(o.players) = Len(players) + 1
                     /\ o.players[Len(players) + 1].name = Trim(raw)
                     /\ o.response.data[1].player.id = Len(players) + 1

\* a player that has played, with a ranking that is no longer the initial
\* one, is back in the queue, and a join under its name padded with blanks
\* finds it
C31_Witness ==
    /\ Len(players) >= 1
    /\ players[1].totalMatches > 0
    /\ players[1].ranking # InitialRanking
    /\ players[1].isInQueue
    /\ FindByName(players, Trim(<<Blank, 1, Blank>>)) = 1


\* the ids rejoin is tried with: those of PlayerIdInputs and a key that
\* players inherits
RejoinInputs == PlayerIdInputs \cup {ConstructorId}

\* C32: rejoin of an id that no registered player has answers 404 'Player
\* not found', registers nobody and changes nothing; rejoin of a registered
\* player that is neither in the queue nor in a match succeeds, puts the
\* player in the queue and answers with its position.
C32_RejoinUnknownNotFound ==
    \A playerId \in RejoinInputs : \A o \in RejoinHandler(playerId) :
        /\ playerId \notin PlayerIds =>
              /\ o.response.status = 404
              /\ ~o.response.success
              /\ o.response.message = "Player not found"
              /\ NothingDone(o)
        /\ (playerId \in PlayerIds /\ ~AlreadyActive(players[playerId])) =>
              /\ o.response.status = 200
              /\ o.response.success
              /\ Len(o.players) = Len(players)
              /\ o.players[playerId].isInQueue
              /\ o.response.data[1].queuePosition
                    = FindIndex(o.badmintonQueue, playerId)
              /\ o.response.data[1].queuePosition >= 1


\* C33: the complete-match handler counts the winners before it looks the
\* match up: a request whose winnerIds is missing or not a list of two ids
\* is answered 400 'Match ID and 2 winner IDs required' whatever the match
\* id is (missing, unknown, completed or active), and a request that is
\* answered 404 has a list of two ids and an id of no active match.
C33_WinnerCountBeforeLookup ==
    /\ \A m \in MatchIdInputs : \A w \in WrongCounts :
          LET o == CompleteMatchHandler(m, w)
          IN /\ o.response.status = 400
             /\ o.response.message = "Match ID and 2 winner IDs required"
             /\ NothingDone(o)
    /\ \A c \in CompletionInputs :
          LET o == CompleteMatchHandler(c[1], c[2])
          IN o.response.status = 404 =>
                /\ c[2] # Missing
                /\ Len(c[2]) = WinnerCount
                /\ c[1] \notin ActiveIds
                /\ o.response.message = "Active match not found"

\* one match is completed: the unknown id and the id of the completed match
\* are answered 400 with one winner and 404 with two
C33_Witness ==
    /\ \E m \in MatchIds :
          /\ matches[m].status = "completed"
          /\ CompleteMatchHandler(m, <<1>>).response.status = 400
          /\ CompleteMatchHandler(m, <<1, 2>>).response.status = 404
    /\ CompleteMatchHandler(NoId, <<1>>).response.status = 400
    /\ CompleteMatchHandler(NoId, <<1, 2>>).response.status = 404


\* C34: a match is in activeMatches if and only if its status is active, if
\* and only if it has no end time and no result; it is in completedMatches
\* if and only if its status is completed; every match is in exactly one of
\* the two lists, once; and the lists hold nothing but matches.
C34_MatchListsConsistent ==
    /\ Range(activeMatches) \cup Range(completedMatches) = MatchIds
    /\ Range(activeMatches) \cap Range(completedMatches) = {}
    /\ Cardinality(Range(activeMatches)) = Len(activeMatches)
    /\ Cardinality(Range(completedMatches)) = Len(completedMatches)
    /\ \A m \in MatchIds :
          /\ m \in Range(activeMatches) <=> matches[m].status = "active"
          /\ matches[m].status = "active"
                <=> (matches[m].endTime = NoTime /\ matches[m].result = <<>>)
          /\ m \in Range(completedMatches) <=> matches[m].status = "completed"

\* one match is completed while another is played
C34_Witness ==
    /\ Len(activeMatches) = 1
    /\ Len(completedMatches) = 1
    /\ matches[completedMatches[1]].endTime # NoTime
    /\ matches[activeMatches[1]].endTime = NoTime


\* the positions in q of the entries of players that have no entry in p
Admitted(p, q) == {j \in 1..Len(q) : FindIndex(p, q[j].player) = 0}

Turns(i) == (i + MatchSize - 1) \div MatchSize

Counters(p) ==
    [ranking |-> p.ranking, wins |-> p.wins, losses |-> p.losses,
     totalMatches |-> p.totalMatches]

\* the matches that the step completes
CompletedInStep ==
    {m \in MatchIds : matches[m].status = "active" /\ matches'[m].status = "completed"}

\* C37: a step that completes a match changes that match and the four
\* players of its roster and nothing else: the queue, every other match and
\* every player that is not on the roster stay as they are, nobody is
\* registered, and the match moves from activeMatches to completedMatches;
\* a step that completes no match leaves the ranking and the counters of
\* every player as they are.
C37_CompletionFrame ==
    [][/\ \A m \in CompletedInStep :
             /\ badmintonQueue' = badmintonQueue
             /\ Len(matches') = Len(matches)
             /\ \A n \in MatchIds \ {m} : matches'[n] = matches[n]
             /\ Len(players') = Len(players)
             /\ \A id \in PlayerIds \ Range(matches[m].players) :
                   players'[id] = players[id]
             /\ \A id \in Range(matches[m].players) :
                   Counters(players'[id]) # Counters(players[id])
             /\ activeMatches'
                   = RemoveAt(activeMatches, ActiveIndex(activeMatches, m))
             /\ completedMatches' = Append(completedMatches, m)
       /\ CompletedInStep = {} =>
             \A id \in PlayerIds : Counters(players'[id]) = Counters(players[id])
      ]_vars

\* a match has been completed while four other players wait in the queue
\* and have not played
C37_Witness ==
    /\ Len(completedMatches) = 1
    /\ Len(badmintonQueue) = MatchSize
    /\ \A i \in 1..Len(badmintonQueue) :
          /\ badmintonQueue[i].player \notin Range(matches[completedMatches[1]].players)
          /\ players[badmintonQueue[i].player].totalMatches = 0


\* the completed matches with the player on the side that result names
CompletedWith(id, side) ==
    {m \in MatchIds : /\ matches[m].status = "completed"
                      /\ id \in Range(matches[m].result[1][side])}

\* C38: the totalMatches of every player is the number of completed matches
\* with the player on the roster, its wins the number of those it is among
\* the winners of, and its losses the number of those it is among the
\* losers of.
C38_CountersCountMatches ==
    \A id \in PlayerIds :
        /\ players[id].totalMatches
              = Cardinality({m \in MatchIds : /\ matches[m].status = "completed"
                                              /\ id \in Range(matches[m].players)})
        /\ players[id].wins = Cardinality(CompletedWith(id, "winners"))
        /\ players[id].losses = Cardinality(CompletedWith(id, "losers"))

\* two matches are completed, and a player has won one and lost the other
C38_Witness ==
    /\ Len(completedMatches) = 2
    /\ \E id \in PlayerIds :
          /\ players[id].wins = 1
          /\ players[id].losses = 1
          /\ players[id].totalMatches = 2


\* the lists of two distinct players of the roster, in either order
RosterPairs(roster) ==
    {w \in Range(roster) \X Range(roster) : w[1] # w[2]}

\* C39: every active match can be completed: whichever two distinct players
\* of its roster are named as winners, in either order, the completion
\* succeeds, leaves the match completed and out of activeMatches and none of
\* its players in a match; and every player that is in a match is on the
\* roster of an active match, so that a completion frees it.
C39_ActiveMatchCompletable ==
    /\ \A m \in ActiveIds : \A w \in RosterPairs(matches[m].players) :
          LET o == CompleteMatchHandler(m, w)
          IN /\ o.response.status = 200
             /\ o.response.success
             /\ o.matches[m].status = "completed"
             /\ m \notin Range(o.activeMatches)
             /\ \A id \in Range(matches[m].players) : ~o.players[id].isInMatch
    /\ \A id \in PlayerIds :
          players[id].isInMatch
              => \E m \in ActiveIds : id \in Range(matches[m].players)

\* two matches are active at a time, and the second can be completed with
\* its last two players named in descending order
C39_Witness ==
    /\ Len(activeMatches) = 2
    /\ LET roster == matches[activeMatches[2]].players
       IN CompleteMatchHandler(activeMatches[2],
                               <<roster[MatchSize], roster[MatchSize - 1]>>)
              .response.success

====
